---- MODULE Spec2Model ----
(***************************************************************************)
(* Registry (src/core/registry.js): the shared record store.  One in-memory *)
(* list and one listener list per tab, one persisted blob under the key     *)
(* 'url-registry' shared by all tabs, and the storage events that the       *)
(* browser queues for the other tabs when the key's value changes.          *)
(*                                                                          *)
(* Conventions.  An optional JavaScript value (a key that may be undefined) *)
(* is a sequence of length 0 (absent) or 1 (present).  A string that the    *)
(* code inspects character by character (titles, tags, search terms) is a   *)
(* sequence of one-character strings.  A meta bag is a function whose       *)
(* domain is the set of keys it holds; a key whose value is undefined reads *)
(* like a missing key (r.meta[key] === undefined) and is dropped by         *)
(* JSON.stringify, so it is represented as a missing key.                   *)
(***************************************************************************)
EXTENDS Integers, Sequences, FiniteSets, TLC

VARIABLES records, listeners, closures, blob, pending, now, out

\* The page of tab A that carries the linker (src/unnamed/part_007): the
\* state attachLinker made for each element, and the module's activeLinker
\* and dropdown.
VARIABLES linkers, activeLinker, dropdown

\* The elements whose 'blur' listener has a 200 ms timeout pending.
VARIABLE timeouts

\* The Date the page reads with new Date().
VARIABLE today

linkerVars == <<linkers, activeLinker, dropdown, timeouts, today>>

\* out.op precedes out: what two different operations return is not comparable.
vars == <<records, listeners, closures, blob, pending, now, out.op, out, linkers, activeLinker, dropdown, timeouts, today>>

(***************************************************************************)
(* Bounds of the model.                                                     *)
(***************************************************************************)
MaxRecords == 2
MaxTime == 2
MaxPending == 1
MaxSubs == 2
MaxText == 3

\* The longest logical text of a contenteditable element the user types into.
MaxRich == 10
MaxLine == 8

Tabs == {"A", "B"}
Callbacks == {"f", "g"}

(***************************************************************************)
(* Sequence helpers (Array.prototype.includes / indexOf / splice / filter). *)
(***************************************************************************)
Range(s) == {s[i] : i \in 1..Len(s)}

Includes(s, x) == \E i \in 1..Len(s) : s[i] = x

\* Array.prototype.indexOf, 1-based; 0 stands for -1.
IndexOf(s, x) ==
  IF Includes(s, x) THEN CHOOSE i \in 1..Len(s) : s[i] = x /\ \A j \in 1..(i - 1) : s[j] # x
  ELSE 0

\* Array.prototype.splice(index, 1)
RemoveAt(s, i) == SubSeq(s, 1, i - 1) \o SubSeq(s, i + 1, Len(s))

Some(x) == <<x>>
None == <<>>
IsSome(o) == Len(o) = 1
OrElse(o, d) == IF Len(o) = 1 THEN o[1] ELSE d

Occurrences(s, x) == Cardinality({i \in 1..Len(s) : s[i] = x})

(***************************************************************************)
(* Strings the code inspects: String.prototype.toLowerCase / includes.      *)
(***************************************************************************)
LowerChar(c) ==
  CASE c = "M" -> "m" [] c = "K" -> "k" [] c = "T" -> "t" [] c = "W" -> "w" [] OTHER -> c

toLowerCase(str) == [i \in 1..Len(str) |-> LowerChar(str[i])]

\* String.prototype.includes: term occurs as a contiguous substring.
StrIncludes(str, term) ==
  \E i \in 1..(Len(str) - Len(term) + 1) : SubSeq(str, i, i + Len(term) - 1) = term

(***************************************************************************)
(* Values of the model.                                                     *)
(***************************************************************************)
Types == {"note", "task"}
Milk == <<"M", "k">>
Tea == <<"t">>
Work == <<"W">>
\* An id that generateId never returns: the target of a dangling link, the
\* id of a record that only an import brings in.
Ghost == MaxTime + 1
EmptyMeta == <<>>

REGISTRY_VERSION == 1

\* localStorage value under REGISTRY_KEY: no value, text JSON.parse rejects,
\* or the JSON of an object with a version and (optionally) a records list.
Absent == [kind |-> "absent"]
Corrupt == [kind |-> "corrupt"]
Json(version, recs) == [kind |-> "json", version |-> version, records |-> recs]

Ids(recs) == {recs[i].id : i \in 1..Len(recs)}

(***************************************************************************)
(* Core CRUD on a list of records.  Every operation yields                  *)
(*   recs    the list after the call                                        *)
(*   ret     the returned value, wrapped (<<>> is null)                     *)
(*   changed TRUE when the call reached save() and notify()                 *)
(*   event   the event handed to notify(), wrapped                          *)
(***************************************************************************)
Result(recs, ret, changed, event) ==
  [recs |-> recs, ret |-> ret, changed |-> changed, event |-> event]

\* records.find(r => r.id === id) || null
get(recs, id) ==
  IF id \in Ids(recs)
  THEN Some(recs[CHOOSE i \in 1..Len(recs) : recs[i].id = id /\ \A j \in 1..(i - 1) : recs[j].id # id])
  ELSE None

\* records.findIndex(r => r.id === id), 1-based; 0 stands for -1.
findIndex(recs, id) ==
  IF id \in Ids(recs)
  THEN CHOOSE i \in 1..Len(recs) : recs[i].id = id /\ \A j \in 1..(i - 1) : recs[j].id # id
  ELSE 0

\* A record that drops the meta it was given.
NewRecord_NoMeta(id, type, url, options, t) ==
  [id |-> id, type |-> type, url |-> url,
   links |-> OrElse(options.links, <<>>),
   tags |-> OrElse(options.tags, <<>>),
   created |-> t, updated |-> t,
   meta |-> EmptyMeta]

NewRecord(id, type, url, options, t) ==
  [id |-> id, type |-> type, url |-> url,
   links |-> OrElse(options.links, <<>>),
   tags |-> OrElse(options.tags, <<>>),
   created |-> t, updated |-> t,
   meta |-> OrElse(options.meta, EmptyMeta)]

add(recs, id, type, url, options, t) ==
  LET record == NewRecord(id, type, url, options, t)
  IN Result(<<record>> \o recs, Some(record), TRUE, Some([action |-> "add", record |-> record]))

\* { ...record.meta, ...updates.meta }
MergeMeta(old, patch) ==
  [k \in (DOMAIN old) \cup (DOMAIN patch) |-> IF k \in DOMAIN patch THEN patch[k] ELSE old[k]]

\* update that replaces meta by the patch instead of merging it.
update_ReplacingMeta(recs, id, updates, t) ==
  LET index == findIndex(recs, id)
  IN IF index = 0 THEN Result(recs, None, FALSE, None)
     ELSE LET old == recs[index]
              record == [old EXCEPT
                           !.url = OrElse(updates.url, old.url),
                           !.links = OrElse(updates.links, old.links),
                           !.tags = OrElse(updates.tags, old.tags),
                           !.meta = OrElse(updates.meta, old.meta),
                           !.updated = t]
          IN Result([recs EXCEPT ![index] = record], Some(record), TRUE,
                    Some([action |-> "update", record |-> record]))

update(recs, id, updates, t) ==
  LET index == findIndex(recs, id)
  IN IF index = 0 THEN Result(recs, None, FALSE, None)
     ELSE LET old == recs[index]
              record == [old EXCEPT
                           !.url = OrElse(updates.url, old.url),
                           !.links = OrElse(updates.links, old.links),
                           !.tags = OrElse(updates.tags, old.tags),
                           !.meta = IF IsSome(updates.meta) THEN MergeMeta(old.meta, updates.meta[1]) ELSE old.meta,
                           !.updated = t]
          IN Result([recs EXCEPT ![index] = record], Some(record), TRUE,
                    Some([action |-> "update", record |-> record]))

\* remove without the index === -1 return: splice(-1, 1) drops the last record.
remove_NoGuard(recs, id) ==
  LET index == findIndex(recs, id)
  IN IF recs = <<>> THEN Result(recs, Some(FALSE), FALSE, None)
     ELSE LET at == IF index = 0 THEN Len(recs) ELSE index
          IN Result(RemoveAt(recs, at), Some(TRUE), TRUE,
                    Some([action |-> "remove", record |-> recs[at]]))

\* remove that notifies and returns true but splices nothing out.
remove_Keeps(recs, id) ==
  LET index == findIndex(recs, id)
  IN IF index = 0 THEN Result(recs, Some(FALSE), FALSE, None)
     ELSE Result(recs, Some(TRUE), TRUE, Some([action |-> "remove", record |-> recs[index]]))

\* remove that also takes the id out of the links of the records that stay.
remove_Cascading(recs, id) ==
  LET index == findIndex(recs, id)
  IN IF index = 0 THEN Result(recs, Some(FALSE), FALSE, None)
     ELSE LET rest == RemoveAt(recs, index)
              Keep(x) == x # id
          IN Result([i \in 1..Len(rest) |-> [rest[i] EXCEPT !.links = SelectSeq(@, Keep)]],
                    Some(TRUE), TRUE, Some([action |-> "remove", record |-> recs[index]]))

remove(recs, id) ==
  LET index == findIndex(recs, id)
  IN IF index = 0 THEN Result(recs, Some(FALSE), FALSE, None)
     ELSE Result(RemoveAt(recs, index), Some(TRUE), TRUE,
                 Some([action |-> "remove", record |-> recs[index]]))

(***************************************************************************)
(* Links and tags.                                                          *)
(***************************************************************************)
addLink(recs, fromId, toId, t) ==
  LET index == findIndex(recs, fromId)
  IN IF index = 0 THEN Result(recs, Some(FALSE), FALSE, None)
     ELSE IF ~Includes(recs[index].links, toId)
     THEN Result([recs EXCEPT ![index].links = Append(@, toId), ![index].updated = t],
                 Some(TRUE), TRUE, Some([action |-> "link", from |-> fromId, to |-> toId]))
     ELSE Result(recs, Some(TRUE), FALSE, None)

removeLink(recs, fromId, toId, t) ==
  LET index == findIndex(recs, fromId)
  IN IF index = 0 THEN Result(recs, Some(FALSE), FALSE, None)
     ELSE IF IndexOf(recs[index].links, toId) > 0
     THEN Result([recs EXCEPT ![index].links = RemoveAt(@, IndexOf(@, toId)), ![index].updated = t],
                 Some(TRUE), TRUE, Some([action |-> "unlink", from |-> fromId, to |-> toId]))
     ELSE Result(recs, Some(TRUE), FALSE, None)

\* addTag that pushes the tag without refreshing updated.
addTag_NoBump(recs, id, tag, t) ==
  LET index == findIndex(recs, id)
  IN IF index = 0 THEN Result(recs, Some(FALSE), FALSE, None)
     ELSE IF ~Includes(recs[index].tags, tag)
     THEN LET record == [recs[index] EXCEPT !.tags = Append(@, tag)]
          IN Result([recs EXCEPT ![index] = record], Some(TRUE), TRUE,
                    Some([action |-> "tag", record |-> record, tag |-> tag]))
     ELSE Result(recs, Some(TRUE), FALSE, None)

addTag(recs, id, tag, t) ==
  LET index == findIndex(recs, id)
  IN IF index = 0 THEN Result(recs, Some(FALSE), FALSE, None)
     ELSE IF ~Includes(recs[index].tags, tag)
     THEN LET record == [recs[index] EXCEPT !.tags = Append(@, tag), !.updated = t]
          IN Result([recs EXCEPT ![index] = record], Some(TRUE), TRUE,
                    Some([action |-> "tag", record |-> record, tag |-> tag]))
     ELSE Result(recs, Some(TRUE), FALSE, None)

removeTag(recs, id, tag, t) ==
  LET index == findIndex(recs, id)
  IN IF index = 0 THEN Result(recs, Some(FALSE), FALSE, None)
     ELSE IF IndexOf(recs[index].tags, tag) > 0
     THEN LET record == [recs[index] EXCEPT !.tags = RemoveAt(@, IndexOf(@, tag)), !.updated = t]
          IN Result([recs EXCEPT ![index] = record], Some(TRUE), TRUE,
                    Some([action |-> "untag", record |-> record, tag |-> tag]))
     ELSE Result(recs, Some(TRUE), FALSE, None)

(***************************************************************************)
(* Queries.                                                                 *)
(***************************************************************************)
\* Array.prototype.filter is SelectSeq of the Sequences module.

all(recs) == recs

byType(recs, type) == LET Keep(r) == r.type = type IN SelectSeq(recs, Keep)

byTag(recs, tag) == LET Keep(r) == Includes(r.tags, tag) IN SelectSeq(recs, Keep)

linkedTo(recs, id) == LET Keep(r) == Includes(r.links, id) IN SelectSeq(recs, Keep)

\* record.links.map(linkId => get(linkId)).filter(Boolean)
linksFrom(recs, id) ==
  LET record == get(recs, id)
  IN IF ~IsSome(record) THEN <<>>
     ELSE LET links == record[1].links
              F[i \in 0..Len(links)] ==
                IF i = 0 THEN <<>> ELSE F[i - 1] \o get(recs, links[i])
          IN F[Len(links)]

MetaIs(r, key, value) == key \in DOMAIN r.meta /\ r.meta[key] = value

byMeta(recs, key, value) == LET Keep(r) == MetaIs(r, key, value) IN SelectSeq(recs, Keep)

\* r.meta.title?.toLowerCase().includes(term) || r.tags.some(t => t.toLowerCase().includes(term))
MatchesSearch(r, term) ==
  \/ "title" \in DOMAIN r.meta /\ StrIncludes(toLowerCase(r.meta["title"]), term)
  \/ \E i \in 1..Len(r.tags) : StrIncludes(toLowerCase(r.tags[i]), term)

\* The comparator of result.sort: negative when a goes before b.
SortsBefore(a, b, field, order) ==
  IF order = 1 THEN a[field] < b[field] ELSE a[field] > b[field]

\* Array.prototype.sort is stable: an element goes before the first element
\* that the comparator puts strictly after it.
SortRecords(recs, field, order) ==
  LET Insert(s, r) ==
        LET later == {i \in 1..Len(s) : SortsBefore(r, s[i], field, order)}
        IN IF later = {} THEN Append(s, r)
           ELSE LET i == CHOOSE k \in later : \A j \in later : k <= j
                IN SubSeq(s, 1, i - 1) \o <<r>> \o SubSeq(s, i, Len(s))
      F[i \in 0..Len(recs)] == IF i = 0 THEN <<>> ELSE Insert(F[i - 1], recs[i])
  IN F[Len(recs)]

NoCriteria ==
  [type |-> None, tag |-> None, linksTo |-> None, hasLinks |-> FALSE, meta |-> None,
   search |-> None, sortBy |-> None, sortOrder |-> "desc", limit |-> None]

\* The filters of query(), each applied only when its criterion is truthy.
Satisfies(r, criteria) ==
  /\ IsSome(criteria.type) => r.type = criteria.type[1]
  /\ (IsSome(criteria.tag) /\ criteria.tag[1] # <<>>) => Includes(r.tags, criteria.tag[1])
  /\ IsSome(criteria.linksTo) => Includes(r.links, criteria.linksTo[1])
  /\ criteria.hasLinks => Len(r.links) > 0
  /\ IsSome(criteria.meta) => \A k \in DOMAIN criteria.meta[1] : MetaIs(r, k, criteria.meta[1][k])
  /\ (IsSome(criteria.search) /\ criteria.search[1] # <<>>) =>
       MatchesSearch(r, toLowerCase(criteria.search[1]))

query(recs, criteria) ==
  LET Keep(r) == Satisfies(r, criteria)
      filtered == SelectSeq(recs, Keep)
      sorted == IF IsSome(criteria.sortBy)
                THEN SortRecords(filtered, criteria.sortBy[1],
                                 IF criteria.sortOrder = "asc" THEN 1 ELSE -1)
                ELSE filtered
  IN IF IsSome(criteria.limit) /\ criteria.limit[1] # 0
     THEN SubSeq(sorted, 1, IF criteria.limit[1] < Len(sorted) THEN criteria.limit[1] ELSE Len(sorted))
     ELSE sorted

\* [...tags].sort() over the tags of all records
allTags(recs) == UNION {Range(recs[i].tags) : i \in 1..Len(recs)}

(***************************************************************************)
(* Subscriptions.  listeners[t] is the array of callbacks; closures[t]      *)
(* holds, in creation order, the unsubscribe functions subscribe() has      *)
(* returned in tab t: the callback each one captured and whether it has     *)
(* been called.                                                             *)
(***************************************************************************)
\* The function subscribe() returns: splice out the first occurrence of the
\* callback it captured, if there is one.
unsubscribe(ls, callback) ==
  LET index == IndexOf(ls, callback)
  IN IF index > 0 THEN RemoveAt(ls, index) ELSE ls

\* listeners.forEach(fn => fn(event)): forEach fixes the number of visits
\* when it starts and skips an index the array no longer has.  plan[c] is
\* what callback c does when invoked: 0, nothing that touches the registry;
\* k > 0, it calls the k-th unsubscribe function of its tab.
notify(ls0, cl0, plan) ==
  LET Visit[i \in 0..Len(ls0)] ==
        IF i = 0 THEN [ls |-> ls0, cl |-> cl0, delivered |-> <<>>]
        ELSE LET prev == Visit[i - 1]
             IN IF i > Len(prev.ls) THEN prev
                ELSE LET c == prev.ls[i]
                         k == plan[c]
                     IN IF k = 0 THEN [prev EXCEPT !.delivered = Append(@, c)]
                        ELSE [ls |-> unsubscribe(prev.ls, prev.cl[k].cb),
                              cl |-> [prev.cl EXCEPT ![k].called = TRUE],
                              delivered |-> Append(prev.delivered, c)]
  IN Visit[Len(ls0)]

\* What the callbacks of tab t may do during one delivery.
Plans(t) ==
  {plan \in [Callbacks -> 0..Len(closures[t])] :
     \A c \in Callbacks : c \notin Range(listeners[t]) => plan[c] = 0}

(***************************************************************************)
(* Persistence.                                                             *)
(***************************************************************************)
\* JSON.stringify({version: REGISTRY_VERSION, records: records})
JSONstringify(recs) == Json(REGISTRY_VERSION, Some(recs))

\* The records of what localStorage holds, nothing stored or unparsable
\* text counting as no records.
BlobRecords(b) == IF b.kind = "json" THEN OrElse(b.records, <<>>) ELSE <<>>

\* load(): the in-memory list after reading stored value b.
load(recs, b) ==
  IF b.kind = "absent" THEN recs
  ELSE IF b.kind = "corrupt" THEN <<>>
  ELSE OrElse(b.records, <<>>)

\* save(): the stored value after the call; ok is FALSE when setItem throws
\* (the catch only logs).
\* save that keeps the stored records the list does not have.
save_Merging(recs, b, ok) ==
  IF ok
  THEN JSONstringify(recs \o SelectSeq(BlobRecords(b), LAMBDA r : r.id \notin Ids(recs)))
  ELSE b

save(recs, b, ok) == IF ok THEN JSONstringify(recs) ELSE b

(***************************************************************************)
(* Import / export.                                                         *)
(***************************************************************************)
\* An entry of the incoming array that is null: reading its id throws.
Null == [null |-> TRUE]

IsNull(record) == "null" \in DOMAIN record

\* The callback of incoming.forEach throws at some entry.
Throws(incoming) == \E i \in 1..Len(incoming) : IsNull(incoming[i])

\* The merge loop without the get(record.id) test.
MergeIncoming_All(recs, incoming) == recs \o incoming

\* The incoming.forEach of merge mode: push a record unless get(record.id)
\* finds one, the records pushed earlier in the same loop included.  The
\* loop ends where reading record.id throws; what it pushed stays pushed.
MergeIncoming(recs, incoming) ==
  LET F[i \in 0..Len(incoming)] ==
        IF i = 0 THEN recs
        ELSE IF Throws(SubSeq(incoming, 1, i)) THEN F[i - 1]
        ELSE IF ~IsSome(get(F[i - 1], incoming[i].id)) THEN Append(F[i - 1], incoming[i])
             ELSE F[i - 1]
  IN F[Len(incoming)]

\* importRecords(json, options): json is a stored-value shape (see Json).
\* An exception (of JSON.parse, of the merge loop) is caught and answered
\* with false, without save() and notify().
importRecords(recs, json, merge) ==
  IF json.kind # "json" THEN Result(recs, Some(FALSE), FALSE, None)
  ELSE LET incoming == OrElse(json.records, <<>>)
       IN IF merge /\ Throws(incoming)
          THEN Result(MergeIncoming(recs, incoming), Some(FALSE), FALSE, None)
          ELSE Result(IF merge THEN MergeIncoming(recs, incoming) ELSE incoming,
                      Some(TRUE), TRUE, Some([action |-> "import", count |-> Len(incoming)]))

\* exportAll(): the JSON text of the current list.
exportAll(recs) == Json(REGISTRY_VERSION, Some(recs))

(***************************************************************************)
(* Link format (linker): references in text are stored as @[Title](id).     *)
(* Texts are sequences of characters, offsets count from 0 as in the        *)
(* source.                                                                  *)
(***************************************************************************)
\* An id as it is written in a text, and read back from one (0: the text of
\* no id a record has).
IdText(id) == <<CASE id = 1 -> "1" [] id = 2 -> "2" [] id = 3 -> "3" [] OTHER -> "?">>

TextId(str) == IF \E id \in 1..Ghost : IdText(id) = str
               THEN CHOOSE id \in 1..Ghost : IdText(id) = str
               ELSE 0

\* String.prototype.slice(start, end) for offsets that are not negative.
slice(str, start, end) ==
  LET lo == IF start > Len(str) THEN Len(str) ELSE start
      hi == IF end > Len(str) THEN Len(str) ELSE end
  IN IF hi <= lo THEN <<>> ELSE SubSeq(str, lo + 1, hi)

\* The offset of the first character c at or after offset from, or -1.
FirstAt(str, c, from) ==
  IF \E k \in from..(Len(str) - 1) : str[k + 1] = c
  THEN CHOOSE k \in from..(Len(str) - 1) :
         str[k + 1] = c /\ \A j \in from..(k - 1) : str[j + 1] # c
  ELSE -1

\* LINK_REGEX = /@\[([^\]]+)\]\(([^)]+)\)/ tried at offset at: the offset
\* just behind the match, or -1.  The title runs to the first ']', the id
\* to the first ')', and neither is empty.
MatchEnd(text, at) ==
  LET close == FirstAt(text, "]", at + 2)
      paren == FirstAt(text, ")", close + 2)
  IN IF /\ at + 1 < Len(text) /\ text[at + 1] = "@" /\ text[at + 2] = "["
        /\ close > at + 2
        /\ close + 1 < Len(text) /\ text[close + 2] = "("
        /\ paren > close + 2
     THEN paren + 1
     ELSE -1

RECURSIVE ExecFrom(_, _)
\* The loop of LINK_REGEX.exec(text) from lastIndex on.
ExecFrom(text, lastIndex) ==
  IF lastIndex >= Len(text) THEN <<>>
  ELSE LET end == MatchEnd(text, lastIndex)
       IN IF end = -1 THEN ExecFrom(text, lastIndex + 1)
          ELSE LET close == FirstAt(text, "]", lastIndex + 2)
               IN <<[title |-> slice(text, lastIndex + 2, close),
                     id |-> slice(text, close + 2, end - 1),
                     start |-> lastIndex, end |-> end]>> \o ExecFrom(text, end)

parseLinks(text) == ExecFrom(text, 0)

extractLinkIds(text) == [i \in 1..Len(parseLinks(text)) |-> parseLinks(text)[i].id]

\* A piece of rendered output: a character of the text, or the
\* <span class=... data-link-id=...>title</span> put in place of a token.
Plain(c) == [class |-> "", linkId |-> <<>>, title |-> <<c>>]

SpanElement(className, id, title) == [class |-> className, linkId |-> id, title |-> title]

\* renderLinkedText whose spans never get the class 'broken'.
renderLinkedText_NeverBroken(text, recs) ==
  LET links == parseLinks(text)
      R[n \in 0..Len(links)] ==
        IF n = 0 THEN [i \in 1..Len(text) |-> Plain(text[i])]
        ELSE LET link == links[Len(links) - n + 1]
             IN slice(R[n - 1], 0, link.start)
                \o <<SpanElement("inline-link", link.id, link.title)>>
                \o slice(R[n - 1], link.end, Len(R[n - 1]))
  IN R[Len(links)]

\* renderLinkedText(text): the tokens are replaced from the last to the first.
renderLinkedText(text, recs) ==
  LET links == parseLinks(text)
      R[n \in 0..Len(links)] ==
        IF n = 0 THEN [i \in 1..Len(text) |-> Plain(text[i])]
        ELSE LET link == links[Len(links) - n + 1]
                 exists == IsSome(get(recs, TextId(link.id)))
                 className == IF exists THEN "inline-link" ELSE "inline-link broken"
             IN slice(R[n - 1], 0, link.start)
                \o <<SpanElement(className, link.id, link.title)>>
                \o slice(R[n - 1], link.end, Len(R[n - 1]))
  IN R[Len(links)]

(***************************************************************************)
(* Time expressions (src/unnamed/part_007).  A Date is the number of its    *)
(* day, counted from a Sunday, and the minute of that day; getTime() is     *)
(* counted in minutes.  The queries of the model are lower-case and hold no *)
(* blank, so toLowerCase().trim() leaves them as they are.                  *)
(***************************************************************************)
DigitChars == <<"0", "1", "2", "3", "4", "5", "6", "7", "8", "9">>

IsDigit(c) == \E d \in 1..10 : DigitChars[d] = c

DigitOf(c) == (CHOOSE d \in 1..10 : DigitChars[d] = c) - 1

\* parseInt of one or two digits
parseInt(str) == IF Len(str) = 1 THEN DigitOf(str[1]) ELSE 10 * DigitOf(str[1]) + DigitOf(str[2])

\* A dayMap that knows Sunday only.
dayMap_Sunday(dayStr) == 0

\* dayMap
dayMap(dayStr) ==
  CASE dayStr \in {<<"t", "o", "d", "a", "y">>, <<"s", "u", "n">>, <<"s", "u", "n", "d", "a", "y">>} -> 0
    [] dayStr \in {<<"t", "o", "m", "o", "r", "r", "o", "w">>, <<"m", "o", "n">>, <<"m", "o", "n", "d", "a", "y">>} -> 1
    [] dayStr \in {<<"t", "u", "e">>, <<"t", "u", "e", "s", "d", "a", "y">>} -> 2
    [] dayStr \in {<<"w", "e", "d">>, <<"w", "e", "d", "n", "e", "s", "d", "a", "y">>} -> 3
    [] dayStr \in {<<"t", "h", "u">>, <<"t", "h", "u", "r", "s", "d", "a", "y">>} -> 4
    [] dayStr \in {<<"f", "r", "i">>, <<"f", "r", "i", "d", "a", "y">>} -> 5
    [] dayStr \in {<<"s", "a", "t">>, <<"s", "a", "t", "u", "r", "d", "a", "y">>} -> 6
    [] OTHER -> -1

\* The number of digits str starts with.
LeadingDigits(str) ==
  IF \E k \in 1..Len(str) : ~IsDigit(str[k])
  THEN (CHOOSE k \in 1..Len(str) : ~IsDigit(str[k]) /\ \A j \in 1..(k - 1) : IsDigit(str[j])) - 1
  ELSE Len(str)

\* The number of characters before the first digit of str.
LeadingLetters(str) ==
  IF \E k \in 1..Len(str) : IsDigit(str[k])
  THEN (CHOOSE k \in 1..Len(str) : IsDigit(str[k]) /\ \A j \in 1..(k - 1) : ~IsDigit(str[j])) - 1
  ELSE Len(str)

\* /^(\d{1,2})(?::(\d{2}))?\s*(am|pm)?$/ on a text without blanks: the
\* groups it captures, if it matches.
timePattern(str) ==
  LET Groups(n, rest, hasMin, tail) ==
        IF n \in {1, 2} /\ tail \in {<<>>, <<"a", "m">>, <<"p", "m">>}
        THEN Some([hourStr |-> slice(str, 0, n),
                   minStr |-> IF hasMin THEN slice(rest, 1, 3) ELSE <<>>,
                   ampm |-> tail])
        ELSE None
      AfterMinutes(n, rest, hasMin) ==
        Groups(n, rest, hasMin, IF hasMin THEN slice(rest, 3, Len(rest)) ELSE rest)
      AfterHour(n, rest) ==
        AfterMinutes(n, rest, Len(rest) >= 3 /\ rest[1] = ":" /\ IsDigit(rest[2]) /\ IsDigit(rest[3]))
      AfterDigits(n) == AfterHour(n, slice(str, n, Len(str)))
  IN AfterDigits(LeadingDigits(str))

\* The hour after the am/pm rules.
Hours24(hourStr, ampm) ==
  LET Adjusted(hours) ==
        IF ampm = <<"p", "m">> /\ hours < 12 THEN hours + 12
        ELSE IF ampm = <<"a", "m">> /\ hours = 12 THEN 0
        ELSE IF ampm = <<>> /\ hours < 8 THEN hours + 12
        ELSE hours
  IN Adjusted(parseInt(hourStr))

\* A day that is always the current one.
TargetDay_Today(n, dayStr, hours, minutes, date) == date.day

\* The day of the result: of a day and a time (n > 0 letters lead), the day
\* named; of a time alone, today, or tomorrow when the time has passed.
TargetDay(n, dayStr, hours, minutes, date) ==
  LET Next(daysUntil) == date.day + (IF daysUntil <= 0 THEN daysUntil + 7 ELSE daysUntil)
  IN IF n = 0
     THEN IF hours * 60 + minutes <= date.minutes THEN date.day + 1 ELSE date.day
     ELSE IF dayStr = <<"t", "o", "d", "a", "y">> THEN date.day
     ELSE IF dayStr = <<"t", "o", "m", "o", "r", "r", "o", "w">> THEN date.day + 1
     ELSE Next(dayMap(dayStr) - (date.day % 7))

parseTimeExpression(queryText, date) ==
  LET TimeOf(day, hours, minutes) ==
        IF hours > 23 \/ minutes > 59 THEN None
        ELSE Some([timestamp |-> day * 1440 + hours * 60 + minutes,
                   hours |-> hours, minutes |-> minutes])
      Timed(n, dayStr, hours, minutes) ==
        TimeOf(TargetDay(n, dayStr, hours, minutes, date), hours, minutes)
      Matched(n, dayStr, m) ==
        IF ~IsSome(m) \/ (n > 0 /\ dayMap(dayStr) = -1) THEN None
        ELSE Timed(n, dayStr, Hours24(m[1].hourStr, m[1].ampm),
                   IF m[1].minStr # <<>> THEN parseInt(m[1].minStr) ELSE 0)
      Split(n) == Matched(n, slice(queryText, 0, n), timePattern(slice(queryText, n, Len(queryText))))
  IN IF queryText = <<>> THEN None ELSE Split(LeadingLetters(queryText))

\* toLocaleTimeString('en-US', {hour: 'numeric', minute: '2-digit', hour12: true})
TimeString(hours, minutes) ==
  LET h == IF hours % 12 = 0 THEN 12 ELSE hours % 12
  IN (IF h >= 10 THEN <<DigitChars[(h \div 10) + 1]>> ELSE <<>>) \o <<DigitChars[(h % 10) + 1]>>
     \o <<":", DigitChars[(minutes \div 10) + 1], DigitChars[(minutes % 10) + 1], " ">>
     \o (IF hours < 12 THEN <<"A", "M">> ELSE <<"P", "M">>)

\* toLocaleDateString('en-US', {weekday: 'short'})
WeekdayShort(day) ==
  <<<<"S", "u", "n">>, <<"M", "o", "n">>, <<"T", "u", "e">>, <<"W", "e", "d">>,
    <<"T", "h", "u">>, <<"F", "r", "i">>, <<"S", "a", "t">>>>[(day % 7) + 1]

formatTimeLabel(timestamp, date) ==
  LET Label(day, timeStr) ==
        IF day = date.day THEN timeStr \o <<" ", "t", "o", "d", "a", "y">>
        ELSE IF day = date.day + 1 THEN timeStr \o <<" ", "t", "o", "m", "o", "r", "r", "o", "w">>
        ELSE timeStr \o <<" ">> \o WeekdayShort(day)
  IN Label(timestamp \div 1440, TimeString((timestamp % 1440) \div 60, timestamp % 60))

(***************************************************************************)
(* Linker UI (src/unnamed/part_007): one state per attached element, the    *)
(* module's activeLinker (the element whose state it designates, if any)    *)
(* and the dropdown.  A page is the three together.  The element is a text  *)
(* field: its value and its selectionStart are kept with its state.  Titles  *)
(* hold neither a quote nor an ampersand, so an option's data-title reads   *)
(* back as the title written into it.                                       *)
(***************************************************************************)
Untitled == <<"U", "n", "t", "i", "t", "l", "e", "d">>

NoLinkerOptions == [recordId |-> None, excludeId |-> None]

attachLinker(options) ==
  [value |-> <<>>, selectionStart |-> 0,
   isContentEditable |-> FALSE, tree |-> <<>>, selection |-> None,
   active |-> FALSE, startPos |-> 0, query |-> <<>>, selectedIndex |-> 0,
   options |-> options]

\* attachLinker(element, options) for a contenteditable element whose
\* content is tree.
attachEditable(tree, selection, options) ==
  [attachLinker(options) EXCEPT !.isContentEditable = TRUE, !.tree = tree, !.selection = selection]

\* String.prototype.lastIndexOf(c), or -1.
lastIndexOf(str, c) ==
  IF \E k \in 1..Len(str) : str[k] = c
  THEN (CHOOSE k \in 1..Len(str) : str[k] = c /\ \A j \in (k + 1)..Len(str) : str[j] # c) - 1
  ELSE -1

hideDropdown(page) == [page EXCEPT !.dropdown.display = "none", !.activeLinker = None]

\* record.meta?.title || 'Untitled' and r.meta?.title || ''
TitleOr(r, default) ==
  IF "title" \in DOMAIN r.meta /\ r.meta["title"] # <<>> THEN r.meta["title"] ELSE default

\* The options showDropdown renders, with the data- attributes of each: a
\* record (data-id, data-title) or the synthetic one (data-action,
\* data-time, data-time-label).
LinkerOption(r) ==
  [action |-> "", id |-> r.id, title |-> TitleOr(r, Untitled), time |-> 0, timeLabel |-> <<>>]

EventOption(timestamp, timeLabel) ==
  [action |-> "create-event", id |-> 0, title |-> <<>>, time |-> timestamp, timeLabel |-> timeLabel]

\* records.slice(0, n)
\* A list without its cap.
Take_All(s, n) == s

Take(s, n) == SubSeq(s, 1, IF n < Len(s) THEN n ELSE Len(s))

showDropdown(page, e, recs) ==
  LET state == page.linkers[e]
      NotExcluded(r) == ~(IsSome(state.options.excludeId) /\ r.id = state.options.excludeId[1])
      Matches(r) == StrIncludes(toLowerCase(TitleOr(r, <<>>)), toLowerCase(state.query))
      Filtered(timeMatch, candidates) ==
        IF state.query # <<>> /\ ~IsSome(timeMatch) THEN SelectSeq(candidates, Matches)
        ELSE IF IsSome(timeMatch) THEN Take(candidates, 5) ELSE candidates
      Shown(timeMatch, filtered) == Take(filtered, IF IsSome(timeMatch) THEN 5 ELSE 10)
      Html(timeMatch, shown) ==
        (IF IsSome(timeMatch)
         THEN <<EventOption(timeMatch[1].timestamp,
                            formatTimeLabel(timeMatch[1].timestamp, page.today))>>
         ELSE <<>>)
        \o [i \in 1..Len(shown) |-> LinkerOption(shown[i])]
      Rendering(timeMatch) ==
        Html(timeMatch, Shown(timeMatch, Filtered(timeMatch, SelectSeq(all(recs), NotExcluded))))
  IN [page EXCEPT !.dropdown = [display |-> "block",
                                options |-> Rendering(parseTimeExpression(state.query, page.today))]]

(***************************************************************************)
(* Rich surfaces (contenteditable elements).  The content of the element   *)
(* is the sequence of its nodes in document order: text nodes, BR          *)
(* elements, inline-link spans (a title and a data-link-id) and DIV        *)
(* elements, a DIV being an opening mark, its children and a closing mark. *)
(* A boundary point is [at, offset]: inside the text node `at`, after      *)
(* `offset` characters; or, with offset 0, just behind the node or mark    *)
(* `at` (the start of the element for at = 0).  The selection of the       *)
(* window is a collapsed range at such a point, or there is none.          *)
(***************************************************************************)
TextNode(str) == [kind |-> "text", text |-> str, id |-> 0]

BR == [kind |-> "br", text |-> <<>>, id |-> 0]

InlineLink(title, id) == [kind |-> "link", text |-> title, id |-> id]

DivOpen == [kind |-> "div", text |-> <<>>, id |-> 0]

DivClose == [kind |-> "/div", text |-> <<>>, id |-> 0]

\* `@[${title}](${id})`
RawLink(title, id) == <<"@", "[">> \o title \o <<"]", "(">> \o IdText(id) \o <<")">>

ElementStart == [at |-> 0, offset |-> 0]

\* The boundary point just behind node j.
PointAfter(tree, j) ==
  [at |-> j, offset |-> IF j > 0 /\ tree[j].kind = "text" THEN Len(tree[j].text) ELSE 0]

\* The end of the content.
EndPoint(tree) == PointAfter(tree, Len(tree))

\* -1, 0 or 1 as p is before, equal to or after q in document order.
ComparePoints(p, q) ==
  IF p.at < q.at \/ (p.at = q.at /\ p.offset < q.offset) THEN -1
  ELSE IF p = q THEN 0 ELSE 1

\* range.selectNodeContents(node) of a text node, range.selectNode(node)
selectNodeContents(tree, j) == [start |-> [at |-> j, offset |-> 0], end |-> PointAfter(tree, j)]

selectNode(tree, j) == [start |-> PointAfter(tree, j - 1), end |-> PointAfter(tree, j)]

\* this.compareBoundaryPoints(how, sourceRange): END_TO_START compares the
\* start of this range with the end of sourceRange, START_TO_END the end of
\* this range with the start of sourceRange (DOM standard).
compareBoundaryPoints(how, this, sourceRange) ==
  IF how = "END_TO_START" THEN ComparePoints(this.start, sourceRange.end)
  ELSE ComparePoints(this.end, sourceRange.start)

\* range.intersectsNode(node)
intersectsNode(range, tree, j) ==
  /\ ComparePoints(PointAfter(tree, j - 1), range.end) = -1
  /\ ComparePoints(PointAfter(tree, j), range.start) = 1

\* getContentEditableText(element)
getContentEditableText(tree) ==
  LET Walk(text, node) ==
        CASE node.kind = "text" -> text \o node.text
          [] node.kind = "link" -> text \o RawLink(node.text, node.id)
          [] node.kind = "br" -> text \o <<"\n">>
          [] node.kind = "div" /\ Len(text) > 0 /\ text[Len(text)] # "\n" -> text \o <<"\n">>
          [] OTHER -> text
      walked[n \in 0..Len(tree)] == IF n = 0 THEN <<>> ELSE Walk(walked[n - 1], tree[n])
  IN walked[Len(tree)]

\* getContentEditableCursorPos(element), selection being the range of the
\* window's selection, if it has one.
getContentEditableCursorPos(tree, selection) ==
  LET preRange == [start |-> ElementStart, end |-> selection[1]]
      Behind(j) == compareBoundaryPoints("END_TO_START", preRange, selectNode(tree, j)) >= 0
      Walk(pos, j) ==
        CASE tree[j].kind = "text" ->
               IF /\ intersectsNode(preRange, tree, j)
                  /\ compareBoundaryPoints("END_TO_START", preRange, selectNodeContents(tree, j)) <= 0
                  /\ compareBoundaryPoints("START_TO_END", preRange, selectNodeContents(tree, j)) >= 0
               THEN pos + (IF preRange.end.at = j THEN preRange.end.offset ELSE Len(tree[j].text))
               ELSE pos
          [] tree[j].kind = "link" ->
               IF Behind(j) THEN pos + Len(RawLink(tree[j].text, tree[j].id)) ELSE pos
          [] tree[j].kind = "br" -> IF Behind(j) THEN pos + 1 ELSE pos
          [] tree[j].kind = "div" -> IF Behind(j) /\ pos > 0 THEN pos + 1 ELSE pos
          [] OTHER -> pos
      walked[n \in 0..Len(tree)] == IF n = 0 THEN 0 ELSE Walk(walked[n - 1], n)
  IN IF ~IsSome(selection) THEN 0 ELSE walked[Len(tree)]

\* findPosition(targetPos) of insertInContentEditable: the text node and the
\* offset in it, or null.  The offset is negative when the count has already
\* passed targetPos.
findPosition(tree, targetPos) ==
  LET Walk(w, j) ==
        IF IsSome(w.found) THEN w
        ELSE CASE tree[j].kind = "text" ->
                    IF w.charCount + Len(tree[j].text) >= targetPos
                    THEN [w EXCEPT !.found = Some([at |-> j, offset |-> targetPos - w.charCount])]
                    ELSE [w EXCEPT !.charCount = @ + Len(tree[j].text)]
               [] tree[j].kind = "link" ->
                    [w EXCEPT !.charCount = @ + Len(RawLink(tree[j].text, tree[j].id))]
               [] tree[j].kind = "br" -> [w EXCEPT !.charCount = @ + 1]
               [] tree[j].kind = "div" -> IF w.charCount > 0 THEN [w EXCEPT !.charCount = @ + 1] ELSE w
               [] OTHER -> w
      walked[n \in 0..Len(tree)] ==
        IF n = 0 THEN [charCount |-> 0, found |-> None] ELSE Walk(walked[n - 1], n)
  IN walked[Len(tree)].found

\* The number of DIVs open behind node or mark j.
Depth(tree, j) ==
  Cardinality({k \in 1..j : tree[k].kind = "div"}) - Cardinality({k \in 1..j : tree[k].kind = "/div"})

\* The DIV of mark j has its other mark between lo and hi.
Paired(tree, j, lo, hi) ==
  IF tree[j].kind = "div"
  THEN \E k \in (j + 1)..hi : tree[k].kind = "/div" /\ Depth(tree, k) = Depth(tree, j) - 1
  ELSE \E k \in lo..(j - 1) : tree[k].kind = "div" /\ Depth(tree, k) = Depth(tree, j) + 1

\* range.deleteContents() followed by range.insertNode(spaceNode) and
\* range.insertNode(linkSpan), the range running from start, a point in a
\* text node, to end: the nodes the range contains are removed, a DIV only
\* with both its marks; the text nodes of the two ends keep what lies outside
\* the range; the nodes are inserted where the range collapses, a text node
\* being split there (and split again, at its end, by the second insertion).
\* The selection is then collapsed behind the space.
replaceContents(tree, start, end, linkSpan) ==
  LET Removed(j) ==
        /\ start.at < j /\ j <= end.at
        /\ ~(tree[j].kind = "text" /\ j = end.at)
        /\ (tree[j].kind \in {"div", "/div"} => Paired(tree, j, start.at + 1, end.at))
      Left(j) ==
        IF Removed(j) THEN <<>>
        ELSE IF j = start.at /\ j > 0 /\ tree[j].kind = "text"
             THEN <<TextNode(slice(tree[j].text, 0, start.offset))>>
             ELSE IF j = end.at /\ tree[j].kind = "text"
                  THEN <<TextNode(slice(tree[j].text, end.offset, Len(tree[j].text)))>>
                  ELSE <<tree[j]>>
      kept[n \in 0..Len(tree)] == IF n = 0 THEN <<>> ELSE kept[n - 1] \o Left(n)
      Last(closers) ==
        IF closers = {} THEN start.at ELSE CHOOSE j \in closers : \A k \in closers : k <= j
      Inserted(head, whole) ==
        [tree |-> head \o <<linkSpan, TextNode(<<" ">>)>> \o SubSeq(whole, Len(head) + 1, Len(whole)),
         selection |-> Some([at |-> Len(head) + 2, offset |-> 1])]
      Split(head, node, rest) ==
        [tree |-> head \o <<TextNode(slice(node.text, 0, start.offset)), linkSpan, TextNode(<<>>),
                            TextNode(<<" ">>),
                            TextNode(slice(node.text, end.offset, Len(node.text)))>> \o rest,
         selection |-> Some([at |-> Len(head) + 4, offset |-> 1])]
      Between(last) == Inserted(kept[last], kept[Len(tree)])
  IN IF start.at = end.at /\ start.at > 0 /\ tree[start.at].kind = "text"
     THEN Split(SubSeq(tree, 1, start.at - 1), tree[start.at], SubSeq(tree, start.at + 1, Len(tree)))
     ELSE Between(Last({j \in (start.at + 1)..end.at : tree[j].kind = "/div" /\ ~Removed(j)}))

\* insertInContentEditable(element, startPos, linkText): the state of the
\* element afterwards, whether anything was inserted, and whether
\* range.setStart threw an IndexSizeError (the offset found is negative).
\* The titles of the model match [^\]]+ and the ids [^)]+.
insertInContentEditable(state, title, id) ==
  LET Done(replaced) ==
        [state |-> [state EXCEPT !.tree = replaced.tree, !.selection = replaced.selection],
         inserted |-> TRUE, threw |-> FALSE]
      Ranged(start, cursor) ==
        Done(replaceContents(state.tree, IF ComparePoints(start, cursor) = 1 THEN cursor ELSE start,
                             cursor, InlineLink(title, id)))
      Located(startResult) ==
        IF ~IsSome(startResult) THEN [state |-> state, inserted |-> FALSE, threw |-> FALSE]
        ELSE IF startResult[1].offset < 0 THEN [state |-> state, inserted |-> FALSE, threw |-> TRUE]
        ELSE Ranged(startResult[1], state.selection[1])
  IN IF ~IsSome(state.selection) THEN [state |-> state, inserted |-> FALSE, threw |-> FALSE]
     ELSE Located(findPosition(state.tree, state.startPos))

handleInput(page, e, recs) ==
  LET state == page.linkers[e]
      Found(text, textBeforeCursor, atIndex, queryText) ==
        IF /\ atIndex # -1
           /\ ((IF atIndex > 0 THEN text[atIndex] ELSE " ") \in {" ", "\n"} \/ atIndex = 0)
           /\ ~Includes(queryText, " ") /\ ~Includes(queryText, "\n")
        THEN showDropdown([page EXCEPT !.linkers[e].active = TRUE,
                                       !.linkers[e].startPos = atIndex,
                                       !.linkers[e].query = queryText,
                                       !.linkers[e].selectedIndex = 0,
                                       !.activeLinker = Some(e)], e, recs)
        ELSE IF state.active
             THEN [hideDropdown(page) EXCEPT !.linkers[e].active = FALSE]
             ELSE page
      At(text, textBeforeCursor, atIndex) ==
        Found(text, textBeforeCursor, atIndex,
              slice(textBeforeCursor, atIndex + 1, Len(textBeforeCursor)))
      Before(text, textBeforeCursor) ==
        At(text, textBeforeCursor, lastIndexOf(textBeforeCursor, "@"))
      Read(text, cursorPos) == Before(text, slice(text, 0, cursorPos))
  IN IF state.isContentEditable
     THEN Read(getContentEditableText(state.tree),
               getContentEditableCursorPos(state.tree, state.selection))
     ELSE Read(state.value, state.selectionStart)

\* 'Event at ' + timeLabel
EventTitle(timeLabel) == <<"E", "v", "e", "n", "t", " ", "a", "t", " ">> \o timeLabel

\* The options createEventAndLink gives Registry.add; ts is Date.now().
\* Options whose meta.start is the time of creation.
EventOptions_StartNow(timestamp, timeLabel, ts) ==
  [links |-> None, tags |-> None,
   meta |-> Some([title |-> EventTitle(timeLabel), ts |-> ts, start |-> ts, duration |-> 30])]

EventOptions(timestamp, timeLabel, ts) ==
  [links |-> None, tags |-> None,
   meta |-> Some([title |-> EventTitle(timeLabel), ts |-> ts, start |-> timestamp, duration |-> 30])]

blurTimeout_Never(page, e) == page

\* setTimeout(() => { if (activeLinker === state) hideDropdown() }, 200)
blurTimeout(page, e) == IF page.activeLinker = Some(e) THEN hideDropdown(page) ELSE page

\* `@[${title}](${id}) `
LinkText(id, title) == <<"@", "[">> \o title \o <<"]", "(">> \o IdText(id) \o <<")", " ">>

Splice_AtCursor(state, link) ==
  [state EXCEPT !.value = slice(state.value, 0, state.selectionStart) \o link
                          \o slice(state.value, state.selectionStart, Len(state.value)),
                !.selectionStart = state.selectionStart + Len(link)]

\* element.value = before + link + after; setSelectionRange(newPos, newPos)
Splice(state, link) ==
  [state EXCEPT !.value = slice(state.value, 0, state.startPos) \o link
                          \o slice(state.value, state.selectionStart, Len(state.value)),
                !.selectionStart = state.startPos + Len(link)]

\* selectOption(id, title), recs being the list after Registry.addLink:
\* the page it leaves, whether it ran past its first line, whether it
\* reached the lines that register the link, and whether it threw: either
\* insertInContentEditable did, or `activeLinker.active = false` found
\* activeLinker null (a TypeError that ends the handler before
\* element.focus()).
selectOption(page, id, title, recs) ==
  LET Rest(spliced) ==
        LET Hidden(hidden) ==
              IF IsSome(hidden.activeLinker)
              THEN [page |-> [hidden EXCEPT !.linkers[hidden.activeLinker[1]].active = FALSE],
                    ran |-> TRUE, linked |-> TRUE, threw |-> FALSE]
              ELSE [page |-> hidden, ran |-> TRUE, linked |-> TRUE, threw |-> TRUE]
        IN Hidden(hideDropdown(handleInput(spliced, page.activeLinker[1], recs)))
      Inserted(e, result) ==
        IF result.threw
        THEN [page |-> page, ran |-> TRUE, linked |-> FALSE, threw |-> TRUE]
        ELSE Rest([page EXCEPT !.linkers[e] = result.state])
      Of(e) ==
        IF page.linkers[e].isContentEditable
        THEN Inserted(e, insertInContentEditable(page.linkers[e], title, id))
        ELSE Rest([page EXCEPT !.linkers[e] = Splice(@, LinkText(id, title))])
  IN IF ~IsSome(page.activeLinker)
     THEN [page |-> page, ran |-> FALSE, linked |-> FALSE, threw |-> FALSE]
     ELSE Of(page.activeLinker[1])

\* The call of insertInContentEditable that selectOption or createEventAndLink
\* would make throws.
InsertThrows(page, title, id) ==
  /\ IsSome(page.activeLinker)
  /\ page.linkers[page.activeLinker[1]].isContentEditable
  /\ insertInContentEditable(page.linkers[page.activeLinker[1]], title, id).threw

\* createEventAndLink from `const link` on (part_007:756-786), which repeats
\* selectOption with the title and the id of the record just added.
createEventAndLink(page, id, timeLabel, recs) == selectOption(page, id, EventTitle(timeLabel), recs)

(***************************************************************************)
(* Inputs.                                                                  *)
(***************************************************************************)
NoOptions == [links |-> None, tags |-> None, meta |-> None]

RichOptions ==
  [links |-> Some(<<Ghost>>), tags |-> Some(<<Work>>), meta |-> Some([title |-> Milk])]

NoUpdates == [url |-> None, links |-> None, tags |-> None, meta |-> None]

UpdatePatches ==
  {[NoUpdates EXCEPT !.url = Some("u2")],
   [NoUpdates EXCEPT !.meta = Some([title |-> Tea]), !.tags = Some(<<Work, Work>>)]}

\* add options that link to an id nothing has and to the first generated id.
LinkOptions == [links |-> Some(<<Ghost, 1>>), tags |-> None, meta |-> None]

\* Texts to render, as pieces: plain characters, or a token @[title](id).
Chars(str) == [token |-> FALSE, title |-> str, id |-> 0]

Token(title, id) == [token |-> TRUE, title |-> title, id |-> id]

RECURSIVE Raw(_)
\* The text the pieces spell.
Raw(pieces) ==
  IF pieces = <<>> THEN <<>>
  ELSE (IF pieces[1].token
        THEN <<"@", "[">> \o pieces[1].title \o <<"]", "(">> \o IdText(pieces[1].id) \o <<")">>
        ELSE pieces[1].title) \o Raw(Tail(pieces))

RenderInputs ==
  {<<Token(<<"X">>, Ghost)>>,
   <<Chars(<<"a", " ">>), Token(<<"X">>, Ghost), Chars(<<" ", "b">>)>>,
   <<Token(Milk, 1), Chars(<<"@">>), Token(<<"X", " ">>, Ghost), Chars(<<"(", ")">>)>>,
   <<Chars(<<"@", "[", "a", "]", " ", "(", "1", ")">>), Token(Tea, 2)>>}

\* Patches for update: each key alone, several keys, and meta patches that
\* overwrite a key, add one, and are empty.
PatchInputs ==
  UpdatePatches \cup
  {NoUpdates,
   [NoUpdates EXCEPT !.links = Some(<<Ghost>>)],
   [NoUpdates EXCEPT !.tags = Some(<<>>)],
   [NoUpdates EXCEPT !.meta = Some([done |-> TRUE])],
   [NoUpdates EXCEPT !.meta = Some(EmptyMeta), !.url = Some("u2")],
   [NoUpdates EXCEPT !.meta = Some([title |-> Tea, done |-> TRUE]), !.links = Some(<<>>)]}

\* add options with a tag that is the empty string.
EmptyTagOptions ==
  [links |-> None, tags |-> Some(<<Work, <<>>>>), meta |-> Some([title |-> Tea])]

\* Criteria objects without a limit: every filter omitted or supplied, the
\* empty string among the values supplied.
QueryInputs ==
  {[type |-> type, tag |-> tag, linksTo |-> links[1], hasLinks |-> links[2], meta |-> meta,
    search |-> search, sortBy |-> sortBy, sortOrder |-> "asc", limit |-> None] :
     type \in {None, Some("note"), Some("task")},
     tag \in {None, Some(Work), Some(<<>>)},
     links \in {<<None, FALSE>>, <<Some(Ghost), TRUE>>},
     meta \in {None, Some([title |-> Milk])},
     search \in {None, Some(<<"K">>)},
     sortBy \in {None, Some("created")}}

\* The ids a call is addressed to: those of the tab's list, and one more.
TargetIds(t) == Ids(records[t]) \cup {Ghost}

GhostRecord(url) ==
  [id |-> Ghost, type |-> "note", url |-> url, links |-> <<>>, tags |-> <<>>,
   created |-> 0, updated |-> 0, meta |-> EmptyMeta]

GhostTagged == [GhostRecord("u1") EXCEPT !.tags = <<Work, Work>>]

\* Texts handed to import: text that does not parse, hand-written payloads.
ImportPayloads ==
  {Corrupt,
   Json(REGISTRY_VERSION, Some(<<GhostRecord("u1")>>)),
   Json(REGISTRY_VERSION, Some(<<GhostTagged, GhostRecord("u2")>>))}

\* Values another script of the origin may leave under the key.
ExternalValues == {Absent, Corrupt}

\* A record another store exported under the first id this store generates.
ForeignRecord ==
  [id |-> 1, type |-> "task", url |-> "u9", links |-> <<Ghost>>, tags |-> <<>>,
   created |-> 0, updated |-> 0, meta |-> [title |-> Tea]]

\* Texts given to import: unparsable text, exports with one record, with
\* two records of one id, of a later version with a known and a new id,
\* without records.
ImportInputs ==
  ImportPayloads \cup
  {Json(REGISTRY_VERSION + 1, Some(<<ForeignRecord, GhostRecord("u2")>>)),
   Json(REGISTRY_VERSION, Some(<<>>)),
   Json(REGISTRY_VERSION, None)}

\* Exports whose records array has a null entry, behind a record with a
\* new id and alone.
MalformedInputs ==
  {Json(REGISTRY_VERSION, Some(<<GhostRecord("u1"), Null>>)),
   Json(REGISTRY_VERSION, Some(<<Null>>))}

(***************************************************************************)
(* State machine.  out is the last call (its name, its tab, the id it was   *)
(* addressed to or generated, its other arguments) and what it handed back to its caller and to  *)
(* the subscribers of its tab: the returned value, the event given to       *)
(* notify() (its action and the keys it carries), the callbacks invoked,    *)
(* in order, and whether setItem stored the list.                           *)
(***************************************************************************)
Call(op, t, id, arg, ret, event, delivered, saved) ==
  [op |-> op, tab |-> t, id |-> id, arg |-> arg, ret |-> ret,
   event |-> IF IsSome(event) THEN Some([action |-> event[1].action, keys |-> DOMAIN event[1]]) ELSE None,
   delivered |-> delivered, saved |-> saved]

Quiet(op, t) == Call(op, t, Ghost, <<>>, None, None, <<>>, FALSE)

\* Wednesday, 10:00.
Wednesday10 == [day |-> 3, minutes |-> 600]

Page == [linkers |-> linkers, activeLinker |-> activeLinker, dropdown |-> dropdown, today |-> today]

SetPage(page) ==
  /\ linkers' = page.linkers
  /\ activeLinker' = page.activeLinker
  /\ dropdown' = page.dropdown

\* The linker module has just been evaluated and initLinker has run: no
\* element is attached yet, the list is empty and not displayed.
InitLinker ==
  /\ linkers = <<>>
  /\ activeLinker = None
  /\ dropdown = [display |-> "none", options |-> <<>>]
  /\ timeouts = {}
  /\ today = Wednesday10

\* The module has just been evaluated in every tab: load() of a key nobody
\* has written yet.
Init ==
  /\ blob = Absent
  /\ records = [t \in Tabs |-> load(<<>>, blob)]
  /\ listeners = [t \in Tabs |-> <<>>]
  /\ closures = [t \in Tabs |-> <<>>]
  /\ pending = [t \in Tabs |-> 0]
  /\ now = 0
  /\ out = Quiet("load", "A")
  /\ InitLinker

\* The storage event: queued for every other tab when setItem changes the value.
Queue(t, b) ==
  /\ b # blob => \A u \in Tabs \ {t} : pending[u] < MaxPending
  /\ pending' = [u \in Tabs |-> IF u # t /\ b # blob THEN pending[u] + 1 ELSE pending[u]]

\* The clock a call reads (Date.now(), new Date()): later than the reading
\* of the call before it.
Tick == now < MaxTime /\ now' = now + 1

\* The tail every mutator shares: when the call changed the list, save() and
\* notify(event); otherwise the call returns at once.  clock: the changing
\* path reads the clock; ok: setItem does not throw.
Finish(op, t, id, arg, res, clock, ok, plan) ==
  /\ records' = [records EXCEPT ![t] = res.recs]
  /\ IF res.changed
     THEN LET n == notify(listeners[t], closures[t], plan)
          IN /\ IF clock THEN Tick ELSE UNCHANGED now
             /\ blob' = save(res.recs, blob, ok)
             /\ Queue(t, save(res.recs, blob, ok))
             /\ listeners' = [listeners EXCEPT ![t] = n.ls]
             /\ closures' = [closures EXCEPT ![t] = n.cl]
             /\ out' = Call(op, t, id, arg, res.ret, res.event, n.delivered, ok)
     ELSE /\ ok /\ \A c \in Callbacks : plan[c] = 0
          /\ UNCHANGED <<blob, pending, listeners, closures, now>>
          /\ out' = Call(op, t, id, arg, res.ret, res.event, <<>>, FALSE)

\* Date.now().toString(36) + Math.random().toString(36).slice(2, 7), with
\* the clock reading t: no two calls get the same string.
generateId(t) == t

Add(t, type, url, options, ok, plan) ==
  /\ Len(records[t]) < MaxRecords
  /\ Finish("add", t, generateId(now + 1), <<type, url, options>>,
            add(records[t], generateId(now + 1), type, url, options, now + 1), TRUE, ok, plan)
  /\ UNCHANGED linkerVars

Update(t, id, updates, ok, plan) ==
  /\ Finish("update", t, id, <<updates>>, update(records[t], id, updates, now + 1), TRUE, ok, plan)
  /\ UNCHANGED linkerVars

Remove(t, id, ok, plan) ==
  /\ Finish("remove", t, id, <<>>, remove(records[t], id), FALSE, ok, plan)
  /\ UNCHANGED linkerVars

AddLink(t, fromId, toId, ok, plan) ==
  /\ Finish("addLink", t, fromId, <<toId>>, addLink(records[t], fromId, toId, now + 1), TRUE, ok, plan)
  /\ UNCHANGED linkerVars

RemoveLink(t, fromId, toId, ok, plan) ==
  /\ Finish("removeLink", t, fromId, <<toId>>, removeLink(records[t], fromId, toId, now + 1), TRUE, ok, plan)
  /\ UNCHANGED linkerVars

AddTag(t, id, tag, ok, plan) ==
  /\ Finish("addTag", t, id, <<tag>>, addTag(records[t], id, tag, now + 1), TRUE, ok, plan)
  /\ UNCHANGED linkerVars

RemoveTag(t, id, tag, ok, plan) ==
  /\ Finish("removeTag", t, id, <<tag>>, removeTag(records[t], id, tag, now + 1), TRUE, ok, plan)
  /\ UNCHANGED linkerVars

Import(t, json, merge, ok, plan) ==
  /\ Len(importRecords(records[t], json, merge).recs) <= MaxRecords
  /\ Finish("import", t, Ghost, <<merge, json>>, importRecords(records[t], json, merge), FALSE, ok, plan)
  /\ UNCHANGED linkerVars

Subscribe(t, callback) ==
  /\ Len(closures[t]) < MaxSubs
  /\ listeners' = [listeners EXCEPT ![t] = Append(@, callback)]
  /\ closures' = [closures EXCEPT ![t] = Append(@, [cb |-> callback, called |-> FALSE])]
  /\ out' = Quiet("subscribe", t)
  /\ UNCHANGED <<records, blob, pending, now>>
  /\ UNCHANGED linkerVars

\* The k-th function subscribe() returned in tab t is called, outside any
\* delivery.
Unsubscribe(t, k) ==
  /\ k \in 1..Len(closures[t])
  /\ listeners' = [listeners EXCEPT ![t] = unsubscribe(@, closures[t][k].cb)]
  /\ closures' = [closures EXCEPT ![t][k].called = TRUE]
  /\ out' = Quiet("unsubscribe", t)
  /\ UNCHANGED <<records, blob, pending, now>>
  /\ UNCHANGED linkerVars

\* The 'storage' listener of tab t handles one queued event for REGISTRY_KEY:
\* load(), then notify({action: 'sync'}).
Sync(t, plan) ==
  /\ pending[t] > 0
  /\ pending' = [pending EXCEPT ![t] = @ - 1]
  /\ records' = [records EXCEPT ![t] = load(records[t], blob)]
  /\ LET n == notify(listeners[t], closures[t], plan)
     IN /\ listeners' = [listeners EXCEPT ![t] = n.ls]
        /\ closures' = [closures EXCEPT ![t] = n.cl]
        /\ out' = Call("sync", t, Ghost, <<>>, None, Some([action |-> "sync"]), n.delivered, FALSE)
  /\ UNCHANGED <<blob, now>>
  /\ UNCHANGED linkerVars

\* Registry.reload is load itself.
Reload(t) ==
  /\ records' = [records EXCEPT ![t] = load(records[t], blob)]
  /\ out' = Quiet("reload", t)
  /\ UNCHANGED <<listeners, closures, blob, pending, now>>
  /\ UNCHANGED linkerVars

\* Another script of the origin rewrites or removes the key: every tab of
\* the registry is then sent a storage event.
StorageChanged(v) ==
  /\ v # blob
  /\ \A u \in Tabs : pending[u] < MaxPending
  /\ blob' = v
  /\ pending' = [u \in Tabs |-> pending[u] + 1]
  /\ out' = Quiet("external", "-")
  /\ UNCHANGED <<records, listeners, closures, now>>
  /\ UNCHANGED linkerVars

\* Some page of tab t renders a text that holds references.
Render(t, pieces) ==
  /\ out' = Call("render", t, Ghost, <<pieces>>,
                 Some(renderLinkedText(Raw(pieces), records[t])), None, <<>>, FALSE)
  /\ UNCHANGED <<records, listeners, closures, blob, pending, now>>
  /\ UNCHANGED linkerVars

\* Some page of tab t calls query(criteria).
Query(t, criteria) ==
  /\ out' = Call("query", t, Ghost, <<criteria>>, Some(query(records[t], criteria)), None, <<>>, FALSE)
  /\ UNCHANGED <<records, listeners, closures, blob, pending, now>>
  /\ UNCHANGED linkerVars

\* What a handler of the linker leaves in out: the event and its element.
Handled(op, e, key) == Call(op, "A", Ghost, <<e, key>>, None, None, <<>>, FALSE)

\* The page calls attachLinker(element, options) for an element it has not
\* attached yet.
Attach(e, options) ==
  /\ e \notin DOMAIN linkers
  /\ linkers' = [x \in DOMAIN linkers \cup {e} |-> IF x = e THEN attachLinker(options) ELSE linkers[x]]
  /\ out' = Handled("attachLinker", e, "")
  /\ UNCHANGED <<activeLinker, dropdown, timeouts, today, records, listeners, closures, blob, pending, now>>

\* The user types the character c at the caret of element e: the field
\* changes, then its 'input' listener runs handleInput.
Type(e, c) ==
  /\ e \in DOMAIN linkers
  /\ ~linkers[e].isContentEditable
  /\ Len(linkers[e].value) < MaxText
  /\ LET state == linkers[e]
         typed == [state EXCEPT !.value = slice(state.value, 0, state.selectionStart) \o <<c>>
                                          \o slice(state.value, state.selectionStart, Len(state.value)),
                                !.selectionStart = state.selectionStart + 1]
     IN SetPage(handleInput([Page EXCEPT !.linkers[e] = typed], e, records["A"]))
  /\ out' = Handled("input", e, c)
  /\ UNCHANGED <<timeouts, today, records, listeners, closures, blob, pending, now>>

\* Backspace at the caret of element e, then handleInput.
Backspace(e) ==
  /\ e \in DOMAIN linkers
  /\ ~linkers[e].isContentEditable
  /\ linkers[e].selectionStart > 0
  /\ LET state == linkers[e]
         erased == [state EXCEPT !.value = slice(state.value, 0, state.selectionStart - 1)
                                           \o slice(state.value, state.selectionStart, Len(state.value)),
                                 !.selectionStart = state.selectionStart - 1]
     IN SetPage(handleInput([Page EXCEPT !.linkers[e] = erased], e, records["A"]))
  /\ out' = Handled("input", e, "Backspace")
  /\ UNCHANGED <<timeouts, today, records, listeners, closures, blob, pending, now>>

\* ArrowLeft (d = -1) or ArrowRight (d = 1): handleKeydown has no case for
\* the key, the caret moves and no 'input' event follows.
MoveCaret(e, d) ==
  /\ e \in DOMAIN linkers
  /\ ~linkers[e].isContentEditable
  /\ linkers[e].selectionStart + d \in 0..Len(linkers[e].value)
  /\ linkers' = [linkers EXCEPT ![e].selectionStart = @ + d]
  /\ out' = Handled("keydown", e, IF d < 0 THEN "ArrowLeft" ELSE "ArrowRight")
  /\ UNCHANGED <<activeLinker, dropdown, timeouts, today, records, listeners, closures, blob, pending, now>>

\* selectOption(id, title) as a step: Registry.addLink in its middle saves
\* and notifies like any other call of it.
Commit(id, title, ok, plan) ==
  LET Done(owner, res, done) ==
        /\ Finish("selectOption", "A", id,
                  [element |-> activeLinker, title |-> title, ran |-> done.ran, threw |-> done.threw,
                   addLink |-> IF IsSome(owner) THEN Some(<<owner[1], id>>) ELSE None],
                  res, TRUE, ok, plan)
        /\ SetPage(done.page)
        /\ UNCHANGED <<timeouts, today>>
      Linked(owner, res) == Done(owner, res, selectOption(Page, id, title, res.recs))
      Owned(owner) ==
        Linked(owner, IF IsSome(owner)
                      THEN addLink(records["A"], owner[1], id, now + 1)
                      ELSE Result(records["A"], None, FALSE, None))
  IN Owned(IF IsSome(activeLinker) /\ ~InsertThrows(Page, title, id)
           THEN linkers[activeLinker[1]].options.recordId ELSE None)

\* createEventAndLink(timestamp, timeLabel) as a step, for an activeLinker
\* that is set: Registry.add, then the splice, then Registry.addLink for a
\* configured owner.  Each of the two saves and notifies; the subscribers
\* do nothing to the registry, and the other tabs are sent the storage
\* events as one.  LZString is loaded.
CreateEvent(timestamp, timeLabel, ok) ==
  LET id == generateId(now + 1)
      Done(owner, added, linked, done) ==
        /\ Len(records["A"]) < MaxRecords
        /\ now + (IF linked.changed THEN 2 ELSE 1) <= MaxTime
        /\ now' = now + (IF linked.changed THEN 2 ELSE 1)
        /\ records' = [records EXCEPT !["A"] = linked.recs]
        /\ blob' = save(linked.recs, blob, ok)
        /\ Queue("A", save(linked.recs, blob, ok))
        /\ out' = Call("createEventAndLink", "A", id,
                       [element |-> activeLinker, title |-> EventTitle(timeLabel), ran |-> done.ran,
                        threw |-> done.threw,
                        addLink |-> IF IsSome(owner) THEN Some(<<owner[1], id>>) ELSE None],
                       linked.ret, IF linked.changed THEN linked.event ELSE added.event,
                       listeners["A"] \o (IF linked.changed THEN listeners["A"] ELSE <<>>), ok)
        /\ SetPage(done.page)
        /\ UNCHANGED <<timeouts, today, listeners, closures>>
      Linked(owner, added, linked) ==
        Done(owner, added, linked, createEventAndLink(Page, id, timeLabel, linked.recs))
      Added(owner, added) ==
        Linked(owner, added, IF IsSome(owner)
                             THEN addLink(added.recs, owner[1], id, now + 2)
                             ELSE Result(added.recs, None, FALSE, None))
      Owned(owner) ==
        Added(owner, add(records["A"], id, "event", "/apps/calendar/#",
                         EventOptions(timestamp, timeLabel, now + 1), now + 1))
  IN /\ IsSome(activeLinker)
     /\ Owned(IF InsertThrows(Page, EventTitle(timeLabel), id)
              THEN None ELSE linkers[activeLinker[1]].options.recordId)

\* The option a key or a click picks is committed by the routine its
\* data-action names.
CommitOption(option, ok, plan) ==
  IF option.action = "create-event"
  THEN (\A c \in Callbacks : plan[c] = 0) /\ CreateEvent(option.time, option.timeLabel, ok)
  ELSE Commit(option.id, option.title, ok, plan)

\* The user pastes str at the caret of element e: one 'input' event.
Paste(e, str) ==
  /\ e \in DOMAIN linkers
  /\ ~linkers[e].isContentEditable
  /\ LET state == linkers[e]
         pasted == [state EXCEPT !.value = slice(state.value, 0, state.selectionStart) \o str
                                           \o slice(state.value, state.selectionStart, Len(state.value)),
                                 !.selectionStart = state.selectionStart + Len(str)]
     IN SetPage(handleInput([Page EXCEPT !.linkers[e] = pasted], e, records["A"]))
  /\ out' = Handled("input", e, "Paste")
  /\ UNCHANGED <<timeouts, today, records, listeners, closures, blob, pending, now>>

\* attachLinker on a contenteditable element whose content is tree; the
\* window has no selection yet.
AttachEditable(e, tree, options) ==
  /\ e \notin DOMAIN linkers
  /\ linkers' = [x \in DOMAIN linkers \cup {e} |->
                   IF x = e THEN attachEditable(tree, None, options) ELSE linkers[x]]
  /\ out' = Handled("attachLinker", e, "contenteditable")
  /\ UNCHANGED <<activeLinker, dropdown, timeouts, today, records, listeners, closures, blob, pending, now>>

\* The boundary points of a tree at which a click or a key leaves the caret.
Points(tree) ==
  {ElementStart}
    \cup {p \in [at : 1..Len(tree), offset : 0..MaxRich] :
            IF tree[p.at].kind = "text" THEN p.offset <= Len(tree[p.at].text) ELSE p.offset = 0}

\* The user puts the caret at a point of the contenteditable element e: the
\* selection changes and no 'input' event follows.
PlaceCaret(e, point) ==
  /\ e \in DOMAIN linkers
  /\ linkers[e].isContentEditable
  /\ point \in Points(linkers[e].tree)
  /\ linkers[e].selection # Some(point)
  /\ linkers' = [linkers EXCEPT ![e].selection = Some(point)]
  /\ out' = Handled("selectionchange", e, "collapse")
  /\ UNCHANGED <<activeLinker, dropdown, timeouts, today, records, listeners, closures, blob, pending, now>>

\* The window's selection loses its range (removeAllRanges, or the node that
\* held it leaves the document): getSelection().rangeCount is 0.
LoseSelection(e) ==
  /\ e \in DOMAIN linkers
  /\ IsSome(linkers[e].selection)
  /\ linkers' = [linkers EXCEPT ![e].selection = None]
  /\ out' = Handled("selectionchange", e, "removeAllRanges")
  /\ UNCHANGED <<activeLinker, dropdown, timeouts, today, records, listeners, closures, blob, pending, now>>

\* The browser inserts str at the caret of a contenteditable element: into
\* the text node that holds the caret, or as a new text node.
insertText(state, str) ==
  LET caret == state.selection[1]
      InText(node) ==
        [state EXCEPT !.tree[caret.at] = TextNode(slice(node.text, 0, caret.offset) \o str
                                                  \o slice(node.text, caret.offset, Len(node.text))),
                      !.selection = Some([at |-> caret.at, offset |-> caret.offset + Len(str)])]
  IN IF caret.at > 0 /\ state.tree[caret.at].kind = "text"
     THEN InText(state.tree[caret.at])
     ELSE [state EXCEPT !.tree = SubSeq(state.tree, 1, caret.at) \o <<TextNode(str)>>
                                 \o SubSeq(state.tree, caret.at + 1, Len(state.tree)),
                        !.selection = Some([at |-> caret.at + 1, offset |-> Len(str)])]

\* The user types or pastes str into the contenteditable element e: the
\* content changes, then the 'input' listener runs handleInput.
InsertText(e, str) ==
  /\ e \in DOMAIN linkers
  /\ linkers[e].isContentEditable
  /\ IsSome(linkers[e].selection)
  /\ Len(getContentEditableText(linkers[e].tree)) + Len(str) <= MaxRich
  /\ SetPage(handleInput([Page EXCEPT !.linkers[e] = insertText(@, str)], e, records["A"]))
  /\ out' = Handled("input", e, IF Len(str) = 1 THEN str[1] ELSE "Paste")
  /\ UNCHANGED <<timeouts, today, records, listeners, closures, blob, pending, now>>

\* Time passes: new Date() reads a later date.
Advance(date) ==
  /\ date.day * 1440 + date.minutes > today.day * 1440 + today.minutes
  /\ today' = date
  /\ out' = Handled("clock", "", "")
  /\ UNCHANGED <<linkers, activeLinker, dropdown, timeouts, records, listeners, closures, blob, pending, now>>

\* handleKeydown for the keys it has a case for, while state.active.  Enter
\* and Tab with an empty list are left to the browser.
KeyDown(e, key, ok, plan) ==
  /\ e \in DOMAIN linkers
  /\ linkers[e].active
  /\ LET state == linkers[e]
         options == dropdown.options
     IN CASE key = "ArrowDown" ->
               /\ linkers' = [linkers EXCEPT ![e].selectedIndex =
                                IF @ + 1 < Len(options) - 1 THEN @ + 1 ELSE Len(options) - 1]
               /\ out' = Handled("keydown", e, key)
               /\ UNCHANGED <<activeLinker, dropdown, timeouts, today, records, listeners, closures, blob, pending, now>>
          [] key = "ArrowUp" ->
               /\ linkers' = [linkers EXCEPT ![e].selectedIndex = IF @ - 1 > 0 THEN @ - 1 ELSE 0]
               /\ out' = Handled("keydown", e, key)
               /\ UNCHANGED <<activeLinker, dropdown, timeouts, today, records, listeners, closures, blob, pending, now>>
          [] key = "Escape" ->
               /\ SetPage([hideDropdown(Page) EXCEPT !.linkers[e].active = FALSE])
               /\ out' = Handled("keydown", e, key)
               /\ UNCHANGED <<timeouts, today, records, listeners, closures, blob, pending, now>>
          [] OTHER ->
               /\ key \in {"Enter", "Tab"}
               /\ Len(options) > 0
               /\ IF state.selectedIndex \in 0..(Len(options) - 1)
                  THEN CommitOption(options[state.selectedIndex + 1], ok, plan)
                  ELSE /\ ok /\ \A c \in Callbacks : plan[c] = 0
                       /\ out' = Handled("keydown", e, key)
                       /\ UNCHANGED <<linkerVars, records, listeners, closures, blob, pending, now>>

\* A click on the k-th option of the displayed list.
ClickOption(k, ok, plan) ==
  /\ dropdown.display = "block"
  /\ k \in 1..Len(dropdown.options)
  /\ IsSome(activeLinker)
  /\ CommitOption(dropdown.options[k], ok, plan)

\* The element loses focus: its 'blur' listener starts the timeout.  One
\* timeout per element is kept pending at a time.
Blur(e) ==
  /\ e \in DOMAIN linkers
  /\ e \notin timeouts
  /\ timeouts' = timeouts \cup {e}
  /\ out' = Handled("blur", e, "")
  /\ UNCHANGED <<linkers, activeLinker, dropdown, today, records, listeners, closures, blob, pending, now>>

\* The timeout of element e expires.
Timeout(e) ==
  /\ e \in timeouts
  /\ timeouts' = timeouts \ {e}
  /\ SetPage(blurTimeout(Page, e))
  /\ out' = Handled("timeout", e, "")
  /\ UNCHANGED <<today, records, listeners, closures, blob, pending, now>>

\* A click outside the list and outside the active element.
ClickOutside ==
  /\ SetPage(hideDropdown(Page))
  /\ out' = Handled("click", "", "")
  /\ UNCHANGED <<timeouts, today, records, listeners, closures, blob, pending, now>>

(***************************************************************************)
(* Spec: the store's operations.  Tab A has one subscriber and issues every *)
(* operation; tab B adds records, so that A has writes to observe.          *)
(***************************************************************************)
Subscribed(ls) ==
  /\ listeners = [t \in Tabs |-> ls[t]]
  /\ closures = [t \in Tabs |-> [i \in 1..Len(ls[t]) |-> [cb |-> ls[t][i], called |-> FALSE]]]

InitStore ==
  /\ blob = Absent
  /\ records = [t \in Tabs |-> load(<<>>, blob)]
  /\ Subscribed([t \in Tabs |-> IF t = "A" THEN <<"f">> ELSE <<>>])
  /\ pending = [t \in Tabs |-> 0]
  /\ now = 0
  /\ out = Quiet("subscribe", "A")
  /\ InitLinker

Next ==
  \/ \E type \in Types, ok \in BOOLEAN, plan \in Plans("A") :
       Add("A", type, "u1", IF type = "task" THEN RichOptions ELSE NoOptions, ok, plan)
  \/ \E plan \in Plans("B") : Add("B", "note", "u1", NoOptions, TRUE, plan)
  \/ \E id \in TargetIds("A"), updates \in UpdatePatches, ok \in BOOLEAN, plan \in Plans("A") :
       Update("A", id, updates, ok, plan)
  \/ \E id \in TargetIds("A"), ok \in BOOLEAN, plan \in Plans("A") :
       Remove("A", id, ok, plan)
  \/ \E id \in TargetIds("A"), ok \in BOOLEAN, plan \in Plans("A") :
       AddLink("A", id, Ghost, ok, plan)
  \/ \E id \in TargetIds("A"), ok \in BOOLEAN, plan \in Plans("A") :
       RemoveLink("A", id, Ghost, ok, plan)
  \/ \E id \in TargetIds("A"), ok \in BOOLEAN, plan \in Plans("A") :
       AddTag("A", id, Work, ok, plan)
  \/ \E id \in TargetIds("A"), ok \in BOOLEAN, plan \in Plans("A") :
       RemoveTag("A", id, Work, ok, plan)
  \/ \E json \in ImportPayloads, merge \in BOOLEAN, ok \in BOOLEAN, plan \in Plans("A") :
       Import("A", json, merge, ok, plan)
  \/ \E plan \in Plans("A") : Sync("A", plan)
  \/ Reload("A")

Spec == InitStore /\ [][Next]_vars

(***************************************************************************)
(* SpecTabs: two tabs, each with one subscriber, that add and remove        *)
(* records and handle each other's storage events, and another script of    *)
(* the origin that removes the key or leaves unparsable text under it.      *)
(***************************************************************************)
InitTabs ==
  /\ blob = Absent
  /\ records = [t \in Tabs |-> load(<<>>, blob)]
  /\ Subscribed([t \in Tabs |-> <<"f">>])
  /\ pending = [t \in Tabs |-> 0]
  /\ now = 0
  /\ out = Quiet("subscribe", "A")
  /\ InitLinker

NextTabs ==
  \/ \E t \in Tabs, type \in Types : \E plan \in Plans(t) :
       Add(t, type, "u1", NoOptions, TRUE, plan)
  \/ \E t \in Tabs : \E id \in TargetIds(t), plan \in Plans(t) :
       Remove(t, id, TRUE, plan)
  \/ \E t \in Tabs : \E plan \in Plans(t) : Sync(t, plan)
  \/ \E v \in ExternalValues : StorageChanged(v)

SpecTabs == InitTabs /\ [][NextTabs]_vars

(***************************************************************************)
(* SpecSubs: tab A subscribes and unsubscribes callbacks, which may call an *)
(* unsubscribe function while an event is delivered to them; it adds,       *)
(* links and removes records and observes the records tab B adds.           *)
(***************************************************************************)
NextSubs ==
  \/ \E callback \in Callbacks : Subscribe("A", callback)
  \/ \E k \in 1..MaxSubs : Unsubscribe("A", k)
  \/ \E plan \in Plans("A") : Add("A", "note", "u1", NoOptions, TRUE, plan)
  \/ \E id \in TargetIds("A"), plan \in Plans("A") : AddLink("A", id, Ghost, TRUE, plan)
  \/ \E id \in TargetIds("A"), plan \in Plans("A") : Remove("A", id, TRUE, plan)
  \/ \E plan \in Plans("B") : Add("B", "note", "u1", NoOptions, TRUE, plan)
  \/ \E plan \in Plans("A") : Sync("A", plan)

SpecSubs == Init /\ [][NextSubs]_vars

(***************************************************************************)
(* SpecLinks: tab A adds records that link to each other and to ids nothing *)
(* has, imports and removes records, and renders texts that refer to them;  *)
(* tab B follows.                                                           *)
(***************************************************************************)
NextLinks ==
  \/ \E type \in Types, options \in {NoOptions, LinkOptions}, plan \in Plans("A") :
       Add("A", type, "u1", options, TRUE, plan)
  \/ \E fromId \in TargetIds("A"), toId \in 1..Ghost, ok \in BOOLEAN, plan \in Plans("A") :
       AddLink("A", fromId, toId, ok, plan)
  \/ \E fromId \in TargetIds("A"), toId \in 1..Ghost, plan \in Plans("A") :
       RemoveLink("A", fromId, toId, TRUE, plan)
  \/ \E id \in TargetIds("A"), plan \in Plans("A") : Remove("A", id, TRUE, plan)
  \/ \E plan \in Plans("A") :
       Import("A", Json(REGISTRY_VERSION, Some(<<GhostRecord("u1")>>)), TRUE, TRUE, plan)
  \/ \E pieces \in RenderInputs : Render("A", pieces)
  \/ \E plan \in Plans("B") : Sync("B", plan)

SpecLinks == InitStore /\ [][NextLinks]_vars

(***************************************************************************)
(* SpecPatch: tab A adds and imports records and patches them with update;  *)
(* tab B follows.                                                           *)
(***************************************************************************)
NextPatch ==
  \/ \E type \in Types, options \in {NoOptions, RichOptions}, plan \in Plans("A") :
       Add("A", type, "u1", options, TRUE, plan)
  \/ \E id \in TargetIds("A"), updates \in PatchInputs, ok \in BOOLEAN, plan \in Plans("A") :
       Update("A", id, updates, ok, plan)
  \/ \E json \in ImportPayloads, merge \in BOOLEAN, plan \in Plans("A") :
       Import("A", json, merge, TRUE, plan)
  \/ \E plan \in Plans("B") : Sync("B", plan)

SpecPatch == InitStore /\ [][NextPatch]_vars

(***************************************************************************)
(* SpecQuery: tab A fills its store and queries it; tab B follows.           *)
(***************************************************************************)
NextQuery ==
  \/ \E type \in Types, options \in {NoOptions, RichOptions, EmptyTagOptions} :
       Add("A", type, "u1", options, TRUE, [c \in Callbacks |-> 0])
  \/ \E id \in TargetIds("A") : Remove("A", id, TRUE, [c \in Callbacks |-> 0])
  \/ \E criteria \in QueryInputs : Query("A", criteria)
  \/ \E plan \in Plans("B") : Sync("B", plan)

SpecQuery == InitStore /\ [][NextQuery]_vars

(***************************************************************************)
(* SpecImport: tab A adds and removes records and imports exports in both   *)
(* modes, and merges exports with a null entry; tab B follows.              *)
(***************************************************************************)
NextImport ==
  \/ Add("A", "note", "u1", NoOptions, TRUE, [c \in Callbacks |-> 0])
  \/ \E id \in TargetIds("A") : Remove("A", id, TRUE, [c \in Callbacks |-> 0])
  \/ \E json \in ImportInputs, merge \in BOOLEAN, plan \in Plans("A") :
       Import("A", json, merge, TRUE, plan)
  \/ \E json \in MalformedInputs, plan \in Plans("A") : Import("A", json, TRUE, TRUE, plan)
  \/ \E plan \in Plans("B") : Sync("B", plan)

SpecImport == InitStore /\ [][NextImport]_vars

(***************************************************************************)
(* SpecOrder: tab A adds, updates, tags, links and removes records and      *)
(* merges exports of another store, whose records were created before,      *)
(* between or after its own and before the import; every export lists its  *)
(* records most recent first, as exportAll writes a list that add alone has *)
(* built.                                                                   *)
(***************************************************************************)
PeerRecord(id, t) == [GhostRecord("u2") EXCEPT !.id = id, !.created = t, !.updated = t]

PeerExports ==
  {exportAll(<<PeerRecord(Ghost, t)>>) : t \in 0..MaxTime}
    \cup {exportAll(<<PeerRecord(Ghost + 1, MaxTime), PeerRecord(Ghost, 1)>>)}

NextOrder ==
  \/ \E type \in Types : Add("A", type, "u1", NoOptions, TRUE, [c \in Callbacks |-> 0])
  \/ \E id \in TargetIds("A"), updates \in UpdatePatches :
       Update("A", id, updates, TRUE, [c \in Callbacks |-> 0])
  \/ \E id \in TargetIds("A") : Remove("A", id, TRUE, [c \in Callbacks |-> 0])
  \/ \E id \in TargetIds("A") : AddLink("A", id, Ghost, TRUE, [c \in Callbacks |-> 0])
  \/ \E id \in TargetIds("A") : RemoveLink("A", id, Ghost, TRUE, [c \in Callbacks |-> 0])
  \/ \E id \in TargetIds("A") : AddTag("A", id, Work, TRUE, [c \in Callbacks |-> 0])
  \/ \E id \in TargetIds("A") : RemoveTag("A", id, Work, TRUE, [c \in Callbacks |-> 0])
  \/ \E json \in PeerExports :
       /\ \A i \in 1..Len(json.records[1]) : json.records[1][i].created <= now
       /\ Import("A", json, TRUE, TRUE, [c \in Callbacks |-> 0])
  \/ \E plan \in Plans("B") : Sync("B", plan)

SpecOrder == InitStore /\ [][NextOrder]_vars

(***************************************************************************)
(* SpecLinker: a page of tab A attaches the linker to one text field, with  *)
(* or without the id of the record the field belongs to; the user types,    *)
(* erases, moves the caret, walks the list and picks from it with the keys  *)
(* or the pointer, and clicks elsewhere; the store is replaced by lists     *)
(* that hold the owner or not; tab B follows.                               *)
(***************************************************************************)
Alphabet == {"@", " ", "t", "\n"}

HandledKeys == {"ArrowDown", "ArrowUp", "Enter", "Tab", "Escape"}

OwnedOptions == [recordId |-> Some(1), excludeId |-> Some(1)]

Titled(id, title) == [GhostRecord("u1") EXCEPT !.id = id, !.meta = [title |-> title]]

LinkerStores ==
  {Json(REGISTRY_VERSION, Some(<<Titled(1, Tea), GhostRecord("u2")>>)),
   Json(REGISTRY_VERSION, Some(<<GhostRecord("u2"), Titled(2, Tea)>>))}

NextLinker ==
  \/ \E options \in {NoLinkerOptions, OwnedOptions} : Attach("e1", options)
  \/ \E c \in Alphabet : Type("e1", c)
  \/ "e1" \in DOMAIN linkers /\ Len(linkers["e1"].value) <= MaxText /\ Backspace("e1")
  \/ \E d \in {-1, 1} : MoveCaret("e1", d)
  \/ \E key \in HandledKeys : KeyDown("e1", key, TRUE, [c \in Callbacks |-> 0])
  \/ \E k \in 1..MaxRecords : ClickOption(k, TRUE, [c \in Callbacks |-> 0])
  \/ ClickOutside
  \/ \E json \in LinkerStores :
       records["A"] = <<>> /\ Import("A", json, FALSE, TRUE, [c \in Callbacks |-> 0])
  \/ \E plan \in Plans("B") : Sync("B", plan)

SpecLinker == InitStore /\ [][NextLinker]_vars

(***************************************************************************)
(* SpecBlur: the field of SpecLinker loses focus while the user types and   *)
(* picks from the list with the pointer; the timeout of each blur expires   *)
(* some time later.                                                         *)
(***************************************************************************)
NextBlur ==
  \/ \E options \in {NoLinkerOptions, OwnedOptions} : Attach("e1", options)
  \/ \E c \in {"@", "t", " "} : Type("e1", c)
  \/ Blur("e1")
  \/ Timeout("e1")
  \/ \E k \in 1..MaxRecords : ClickOption(k, TRUE, [c \in Callbacks |-> 0])
  \/ ClickOutside
  \/ KeyDown("e1", "Escape", TRUE, [c \in Callbacks |-> 0])
  \/ \E json \in LinkerStores :
       records["A"] = <<>> /\ Import("A", json, FALSE, TRUE, [c \in Callbacks |-> 0])
  \/ \E plan \in Plans("B") : Sync("B", plan)

SpecBlur == InitStore /\ [][NextBlur]_vars

(***************************************************************************)
(* SpecRich: a contenteditable element whose content is one of a few trees  *)
(* is attached, with or without an owner; the user puts the caret somewhere *)
(* in it, types, loses the selection, and commits options of the list with  *)
(* the keyboard or a click, over a store of two titled records.             *)
(***************************************************************************)
RichTrees ==
  {<<TextNode(<<"t", " ", "t", " ", "t", " ", "t", " ">>)>>,
   <<InlineLink(Tea, 2)>>,
   <<TextNode(<<"t">>), BR, InlineLink(Tea, 2)>>,
   <<TextNode(<<"t">>), DivOpen, BR, DivClose, DivOpen, TextNode(<<"t", " ", "t", " ", "t", " ">>), DivClose>>,
   <<DivOpen, InlineLink(Tea, 2), TextNode(<<" ">>), DivClose, DivOpen, DivClose>>}

RichStore == <<Titled(2, Tea), Titled(1, Milk)>>

NextRich ==
  \/ \E tree \in RichTrees : \E options \in {NoLinkerOptions, OwnedOptions} :
       AttachEditable("r1", tree, options)
  \/ "r1" \in DOMAIN linkers
       /\ \E point \in {ElementStart} \cup {PointAfter(linkers["r1"].tree, j) : j \in {3, 6, Len(linkers["r1"].tree)} \cap 1..Len(linkers["r1"].tree)} :
            PlaceCaret("r1", point)
  \/ LoseSelection("r1")
  \/ \E c \in {"@", "t"} : InsertText("r1", <<c>>)
  \/ \E key \in {"ArrowDown", "Enter", "Escape"} : KeyDown("r1", key, TRUE, [c \in Callbacks |-> 0])
  \/ \E k \in 1..2 : ClickOption(k, TRUE, [c \in Callbacks |-> 0])
  \/ records["A"] = <<>>
       /\ Import("A", Json(REGISTRY_VERSION, Some(RichStore)), FALSE, TRUE, [c \in Callbacks |-> 0])
  \/ \E plan \in Plans("B") : Sync("B", plan)

SpecRich == InitStore /\ [][NextRich]_vars

(***************************************************************************)
(* SpecTime: a text field and an empty contenteditable element, attached    *)
(* with or without an owner the store holds; the user types '@', pastes a   *)
(* time expression behind it and commits the candidate that creates an      *)
(* event, on a Wednesday at 10:00.                                          *)
(***************************************************************************)
TimeQueries == {<<"m", "o", "n", "9", "a", "m">>, <<"9">>, <<"t", "9">>}

GhostOwned == [recordId |-> Some(Ghost), excludeId |-> Some(Ghost)]

NextTime ==
  \/ \E options \in {NoLinkerOptions, GhostOwned} : linkers = <<>> /\ Attach("e1", options)
  \/ \E options \in {NoLinkerOptions, GhostOwned} : linkers = <<>> /\ AttachEditable("r1", <<>>, options)
  \/ Type("e1", "@")
  \/ \E str \in TimeQueries :
       "e1" \in DOMAIN linkers /\ Len(linkers["e1"].value) <= 1 /\ Paste("e1", str)
  \/ "r1" \in DOMAIN linkers /\ PlaceCaret("r1", EndPoint(linkers["r1"].tree))
  \/ LoseSelection("r1")
  \/ \E str \in {<<"@">>} \cup TimeQueries :
       /\ "r1" \in DOMAIN linkers
       /\ Len(getContentEditableText(linkers["r1"].tree)) <= 1
       /\ InsertText("r1", str)
  \/ \E e \in {"e1", "r1"} : \E key \in {"ArrowDown", "Enter"} :
       KeyDown(e, key, TRUE, [c \in Callbacks |-> 0])
  \/ ClickOption(1, TRUE, [c \in Callbacks |-> 0])
  \/ records["A"] = <<>>
       /\ Import("A", Json(REGISTRY_VERSION, Some(<<GhostRecord("u1")>>)), FALSE, TRUE,
                 [c \in Callbacks |-> 0])
  \/ \E plan \in Plans("B") : Sync("B", plan)

SpecTime == InitStore /\ [][NextTime]_vars

(***************************************************************************)
(* SpecPair: one page attaches two text fields, e1 for record 1 and e2 for  *)
(* record 2; the user types into either field and presses the keys of the   *)
(* list in e1 only, over a store that holds both records.                   *)
(***************************************************************************)
OwnedBy(id) == [recordId |-> Some(id), excludeId |-> Some(id)]

PairStore == <<Titled(1, Tea), Titled(2, Milk)>>

NextPair ==
  \/ \E e \in {"e1", "e2"} : Attach(e, OwnedBy(IF e = "e1" THEN 1 ELSE 2))
  \/ \E e \in {"e1", "e2"} : \E c \in {"@", "t"} : Type(e, c)
  \/ \E key \in {"ArrowDown", "Enter", "Tab", "Escape"} :
       KeyDown("e1", key, TRUE, [c \in Callbacks |-> 0])
  \/ records["A"] = <<>>
       /\ Import("A", Json(REGISTRY_VERSION, Some(PairStore)), FALSE, TRUE, [c \in Callbacks |-> 0])
  \/ \E plan \in Plans("B") : Sync("B", plan)

SpecPair == InitStore /\ [][NextPair]_vars

(***************************************************************************)
(* SpecToken: the user commits a candidate in a text field and goes on      *)
(* editing at the caret behind the inserted token: erasing backwards and    *)
(* inserting single characters, in a line of at most MaxLine characters.    *)
(***************************************************************************)
NextToken ==
  \/ Attach("e1", NoLinkerOptions)
  \/ \E c \in {"@", "t"} : Type("e1", c)
  \/ \E c \in {"@", "t"} :
       /\ "e1" \in DOMAIN linkers
       /\ Len(linkers["e1"].value) \in MaxText..(MaxLine - 1)
       /\ Paste("e1", <<c>>)
  \/ Backspace("e1")
  \/ \E key \in {"Enter", "Escape"} : KeyDown("e1", key, TRUE, [c \in Callbacks |-> 0])
  \/ records["A"] = <<>>
       /\ Import("A", Json(REGISTRY_VERSION, Some(<<Titled(1, Tea)>>)), FALSE, TRUE,
                 [c \in Callbacks |-> 0])
  \/ \E plan \in Plans("B") : Sync("B", plan)

SpecToken == InitStore /\ [][NextToken]_vars

(***************************************************************************)
(* SpecParse: parseTimeExpression is applied once, to a written token (an   *)
(* optional day, an hour, optional minutes, an optional meridiem) at a      *)
(* reading of the clock.                                                    *)
(***************************************************************************)
\* The decimal digits of n < 100, and its two digits.
Written(n) ==
  IF n < 10 THEN <<DigitChars[n + 1]>> ELSE <<DigitChars[(n \div 10) + 1], DigitChars[(n % 10) + 1]>>

TwoDigits(n) == <<DigitChars[(n \div 10) + 1], DigitChars[(n % 10) + 1]>>

TokenText(token) ==
  token.day \o Written(token.hour)
    \o (IF IsSome(token.min) THEN <<":">> \o TwoDigits(token.min[1]) ELSE <<>>)
    \o token.ampm

WrittenDays ==
  {<<>>, <<"t", "o", "d", "a", "y">>, <<"t", "o", "m", "o", "r", "r", "o", "w">>,
   <<"m", "o", "n">>, <<"m", "o", "n", "d", "a", "y">>, <<"w", "e", "d">>, <<"s", "u", "n">>,
   <<"s", "a", "t", "u", "r", "d", "a", "y">>}

WrittenHours == 0..25

WrittenMinutes == {None, Some(0), Some(30), Some(59), Some(60)}

Meridiems == {<<>>, <<"a", "m">>, <<"p", "m">>}

Tokens == [day : WrittenDays, hour : WrittenHours, min : WrittenMinutes, ampm : Meridiems]

ClockReadings ==
  {d \in [day : 3..10, minutes : {0, 600, 1439}] :
     d.day * 1440 + d.minutes >= Wednesday10.day * 1440 + Wednesday10.minutes}

\* parseTimeExpression(query) when new Date() reads date.
Parse(token, date) ==
  /\ out.op # "parseTimeExpression"
  /\ today' = date
  /\ out' = Call("parseTimeExpression", "A", Ghost, token,
                 parseTimeExpression(TokenText(token), date), None, <<>>, FALSE)
  /\ UNCHANGED <<linkers, activeLinker, dropdown, timeouts, records, listeners, closures, blob, pending, now>>

NextParse ==
  /\ out.op # "parseTimeExpression"
  /\ \E token \in Tokens : \E date \in ClockReadings : Parse(token, date)

SpecParse == InitStore /\ [][NextParse]_vars

(***************************************************************************)
(* SpecCandidates: the store of tab A comes to hold eleven records, written *)
(* under the key by another page; the user types '@' and pastes queries     *)
(* behind it, some of them time expressions, at different times of the      *)
(* week, in a field attached with or without an id to exclude.              *)
(***************************************************************************)
Numbered(id, title, tags) ==
  [GhostRecord("u1") EXCEPT !.id = id, !.tags = tags,
                            !.meta = IF title = <<>> THEN EmptyMeta ELSE [title |-> title]]

\* Titles 't', none, 'Mk' in turn; the second record is tagged 't'.
MixedStore ==
  [i \in 1..11 |-> Numbered(i, IF i % 3 = 1 THEN Tea ELSE IF i % 3 = 2 THEN <<>> ELSE Milk,
                            IF i = 2 THEN <<Tea>> ELSE <<>>)]

TeaStore == [i \in 1..11 |-> Numbered(i, Tea, <<>>)]

PastedQueries ==
  {<<"t">>, <<"m", "k">>, <<"9">>, <<"2", "5">>, <<"9", ":", "3", "0", "p", "m">>,
   <<"m", "o", "n", "9", "a", "m">>, <<"t", "o", "d", "a", "y", "1", "1">>}

Dates == {[day |-> 8, minutes |-> 480]}

ExcludingOptions == [recordId |-> None, excludeId |-> Some(1)]

NextCandidates ==
  \/ \E options \in {NoLinkerOptions, ExcludingOptions} : Attach("e1", options)
  \/ Type("e1", "@")
  \/ \E str \in PastedQueries :
       "e1" \in DOMAIN linkers /\ Len(linkers["e1"].value) <= 1 /\ Paste("e1", str)
  \/ Backspace("e1")
  \/ \E date \in Dates : Advance(date)
  \/ \E recs \in {MixedStore, TeaStore} :
       blob = Absent /\ StorageChanged(Json(REGISTRY_VERSION, Some(recs)))
  \/ \E t \in Tabs : \E plan \in Plans(t) : Sync(t, plan)

SpecCandidates == InitStore /\ [][NextCandidates]_vars

(***************************************************************************)
(* Vocabulary of the properties.                                            *)
(***************************************************************************)
\* The ids generateId can have returned.
Generated == 1..MaxTime

Unique(recs) == \A i, j \in 1..Len(recs) : recs[i].id = recs[j].id => i = j

UpperChar(c) ==
  CASE c = "m" -> "M" [] c = "k" -> "K" [] c = "t" -> "T" [] c = "w" -> "W" [] OTHER -> c

toUpperCase(str) == [i \in 1..Len(str) |-> UpperChar(str[i])]

SubStrings(str) == {SubSeq(str, i, j) : i \in 1..Len(str), j \in 1..Len(str)} \ {<<>>}

\* Every spelling, in any case, of a piece of the record's title or tags.
SearchTermsOf(r) ==
  LET texts == (IF "title" \in DOMAIN r.meta THEN {r.meta["title"]} ELSE {}) \cup Range(r.tags)
      pieces == UNION {SubStrings(x) : x \in texts}
  IN pieces \cup {toLowerCase(x) : x \in pieces} \cup {toUpperCase(x) : x \in pieces}

\* Criteria that record r satisfies, read off its own fields.
CriteriaOf(r) ==
  {NoCriteria, [NoCriteria EXCEPT !.type = Some(r.type)],
   [NoCriteria EXCEPT !.sortBy = Some("created")],
   [NoCriteria EXCEPT !.sortBy = Some("updated"), !.sortOrder = "asc"]}
  \cup {[NoCriteria EXCEPT !.tag = Some(g)] : g \in Range(r.tags)}
  \cup {[NoCriteria EXCEPT !.linksTo = Some(x), !.hasLinks = TRUE] : x \in Range(r.links)}
  \cup {[NoCriteria EXCEPT !.meta = Some(r.meta), !.type = Some(r.type)]}
  \cup {[NoCriteria EXCEPT !.search = Some(term)] : term \in SearchTermsOf(r)}

\* Criteria used to look for a record that should be gone.
ProbeCriteria ==
  {NoCriteria, [NoCriteria EXCEPT !.type = Some("note")], [NoCriteria EXCEPT !.type = Some("task")],
   [NoCriteria EXCEPT !.tag = Some(Work)], [NoCriteria EXCEPT !.search = Some(<<"k">>)],
   [NoCriteria EXCEPT !.search = Some(<<"w">>)], [NoCriteria EXCEPT !.sortBy = Some("created")]}

\* The record with this id is handed out by get, all and every query whose
\* criteria it satisfies.
Visible(recs, id) ==
  /\ IsSome(get(recs, id))
  /\ LET r == get(recs, id)[1]
     IN /\ r.id = id
        /\ Includes(all(recs), r)
        /\ \A c \in CriteriaOf(r) : Includes(query(recs, c), r)

\* No record with this id is handed out by get, all or a query.
Hidden(recs, id) ==
  /\ get(recs, id) = None
  /\ id \notin Ids(all(recs))
  /\ \A c \in ProbeCriteria : id \notin Ids(query(recs, c))

IsCall(o, op, t, id) == o.op = op /\ o.tab = t /\ o.id = id

\* The step replaces the whole list of tab t: a replace-mode import, a
\* cross-tab sync, a reload.
Replaces(t) ==
  /\ out'.tab = t
  /\ \/ out'.op \in {"sync", "reload"}
     \/ out'.op = "import" /\ ~out'.arg[1]

(***************************************************************************)
(* C1 (as claimed): in every reachable state no two records of a tab's      *)
(* store have the same id.                                                  *)
(***************************************************************************)
C1_IdsUnique == \A t \in Tabs : Unique(records[t])

(***************************************************************************)
(* C2 (as claimed): a record created by add leaves the store only through   *)
(* remove(id).                                                              *)
(***************************************************************************)
C2_OnlyRemoveRemoves ==
  [][\A t \in Tabs : \A id \in Generated \cap Ids(records[t]) :
       ~IsCall(out', "remove", t, id) => id \in Ids(records'[t])]_vars

(***************************************************************************)
(* C2 (amended): a record created by add is handed out by get, all and      *)
(* every query it satisfies from the moment add returns and after every     *)
(* later step, until remove(id), a replace-mode import, a cross-tab sync or *)
(* a reload in its tab; right after remove(id) returns true nothing hands   *)
(* it out.                                                                  *)
(***************************************************************************)
C2_VisibleUntilRemoved ==
  /\ [](\A t \in Tabs : \A id \in Generated \cap Ids(records[t]) : Visible(records[t], id))
  /\ [][\A t \in Tabs : \A id \in Generated :
         /\ IsCall(out', "add", t, id) => id \in Ids(records'[t])
         /\ (id \in Ids(records[t]) /\ id \notin Ids(records'[t]))
              => (IsCall(out', "remove", t, id) \/ Replaces(t))
         /\ (id \in Ids(records[t]) /\ IsCall(out', "remove", t, id))
              => Hidden(records'[t], id)]_vars

\* A record found by its title has just been removed and the search is empty.
C2_Witness ==
  /\ IsCall(out, "remove", "A", 1)
  /\ out.ret = Some(TRUE)
  /\ query(records["A"], [NoCriteria EXCEPT !.search = Some(<<"k">>)]) = <<>>
  /\ Len(records["A"]) = 1

(***************************************************************************)
(* C3: get(add(type, url, options).id) is a record with the type, url,      *)
(* links, tags and meta passed to add, links and tags defaulting to the     *)
(* empty list and meta to the empty bag.                                    *)
(***************************************************************************)
C3_AddRoundTrip ==
  out.op = "add" =>
    LET got == get(records[out.tab], out.ret[1].id)
        options == out.arg[3]
    IN /\ IsSome(got)
       /\ got[1].type = out.arg[1]
       /\ got[1].url = out.arg[2]
       /\ got[1].links = (IF options.links = None THEN <<>> ELSE options.links[1])
       /\ got[1].tags = (IF options.tags = None THEN <<>> ELSE options.tags[1])
       /\ got[1].meta = (IF options.meta = None THEN EmptyMeta ELSE options.meta[1])

\* add has just returned a record that was given links, tags and meta.
C3_Witness ==
  /\ out.op = "add"
  /\ out.arg[3] = RichOptions
  /\ get(records[out.tab], out.id)[1].tags = <<Work>>

(***************************************************************************)
(* C8 (as claimed): after update, addLink, removeLink, addTag or removeTag  *)
(* on an existing record returns, the record's updated is the time of the   *)
(* call and the records of the persisted blob are the in-memory list.       *)
(***************************************************************************)
FieldOps == {"update", "addLink", "removeLink", "addTag", "removeTag"}

C9_AbsentIdIsNoOp ==
  [][(out'.op \in FieldOps \cup {"remove"} /\ out'.id \notin Ids(records[out'.tab])) =>
       /\ IF out'.op = "update" THEN out'.ret = None ELSE out'.ret = Some(FALSE)
       /\ records' = records
       /\ blob' = blob
       /\ pending' = pending
       /\ out'.event = None
       /\ out'.delivered = <<>>]_vars

\* remove of an id the store does not hold has just returned, in a tab that
\* has records and a subscriber.
C9_Witness ==
  /\ out.op = "remove" /\ out.ret = Some(FALSE)
  /\ out.id \notin Ids(records[out.tab])
  /\ records[out.tab] # <<>>
  /\ listeners[out.tab] # <<>>

(***************************************************************************)
(* C10 (as claimed): the same addLink, removeLink, addTag or removeTag      *)
(* call issued a second time in a row on an existing record leaves the      *)
(* record's links and tags as the first call left them, returns true and    *)
(* delivers no event.                                                       *)
(***************************************************************************)
C10_SecondCallIsNoOp ==
  [][(/\ out.op \in FieldOps \ {"update"}
      /\ out.ret = Some(TRUE)
      /\ out'.op = out.op /\ out'.tab = out.tab /\ out'.id = out.id /\ out'.arg = out.arg) =>
       LET before == get(records[out.tab], out.id)[1]
           after == get(records'[out.tab], out.id)[1]
       IN /\ after.links = before.links
          /\ after.tags = before.tags
          /\ out'.ret = Some(TRUE)
          /\ out'.event = None
          /\ out'.delivered = <<>>]_vars

(***************************************************************************)
(* C4 (as claimed): when a tab handles a change event of the shared key,    *)
(* its in-memory list becomes exactly the records of the persisted blob,    *)
(* nothing stored counting as no records; each of its subscribers receives  *)
(* one {action: 'sync'} event that carries no record; the handler writes    *)
(* nothing to the blob.                                                     *)
(***************************************************************************)
C4_SyncReplacesList ==
  [][out'.op = "sync" =>
       /\ records'[out'.tab] = BlobRecords(blob)
       /\ out'.delivered = listeners[out'.tab]
       /\ out'.event = Some([action |-> "sync", keys |-> {"action"}])
       /\ blob' = blob]_vars

(***************************************************************************)
(* C5: when a tab persists a mutation while the other tab's change event is *)
(* still waiting for it, the persisted blob is exactly that tab's list      *)
(* (nothing of what the blob held is merged in), the call returns what it   *)
(* always returns and the only event delivered is the mutation's own.       *)
(***************************************************************************)
C5_LastWriterWins ==
  [][(out'.saved /\ pending[out'.tab] > 0) =>
       /\ blob' = JSONstringify(records'[out'.tab])
       /\ BlobRecords(blob') = records'[out'.tab]
       /\ out'.op = "add" => IsSome(out'.ret) /\ out'.event[1].action = "add"
       /\ out'.op = "remove" => out'.ret = Some(TRUE) /\ out'.event[1].action = "remove"
       /\ \A u \in Tabs \ {out'.tab} : records'[u] = records[u]]_vars

\* Both tabs have persisted an add before handling the other's event: the
\* blob is the later writer's list and lacks the earlier writer's record.
C5_Witness ==
  /\ out.op = "add" /\ out.saved
  /\ \A t \in Tabs : pending[t] > 0
  /\ BlobRecords(blob) = records[out.tab]
  /\ \E u \in Tabs \ {out.tab} : \E id \in Ids(records[u]) : id \notin Ids(BlobRecords(blob))

(***************************************************************************)
(* C6 (as claimed): once every storage event has been handled, every tab's  *)
(* in-memory list is the records of the persisted blob.                     *)
(***************************************************************************)
C6_QuiescentConsistent ==
  (\A t \in Tabs : pending[t] = 0) => \A t \in Tabs : records[t] = BlobRecords(blob)

(***************************************************************************)
(* C7 (as claimed): an event (a local mutation that changed the store, an   *)
(* observed cross-tab sync) is delivered to every subscribed callback and   *)
(* to no unsubscribed one.  In its weakest reading: a callback holding a    *)
(* subscription whose unsubscribe function has been called neither before   *)
(* nor during the delivery is invoked at least once and at most once per    *)
(* subscription; a callback holding none before the event is not invoked.   *)
(***************************************************************************)
LiveSubscriptions(cl, c) == {k \in 1..Len(cl) : cl[k].cb = c /\ ~cl[k].called}

C7_EachSubscriberOnce ==
  [][IsSome(out'.event) =>
       \A c \in Callbacks :
         LET before == LiveSubscriptions(closures[out'.tab], c)
             after == LiveSubscriptions(closures'[out'.tab], c)
             invoked == Occurrences(out'.delivered, c)
         IN  /\ invoked <= Cardinality(before)
             /\ (before \cap after # {}) => invoked >= 1]_vars

(***************************************************************************)
(* C11 (as claimed): in every reachable state no record's links list holds  *)
(* an id twice and no record's tags list holds a tag twice.                 *)
(***************************************************************************)
NoDuplicates(s) == \A i, j \in 1..Len(s) : s[i] = s[j] => i = j

C11_NoDuplicateEntries ==
  \A t \in Tabs : \A i \in 1..Len(records[t]) :
    NoDuplicates(records[t][i].links) /\ NoDuplicates(records[t][i].tags)

(***************************************************************************)
(* C12 (as claimed): an entry of a record's links list is removed by no     *)
(* operation other than removeLink or update on that record (or the removal *)
(* of the record itself), as long as a record with that id is in the store. *)
(***************************************************************************)
OwnerOps == {"removeLink", "update", "remove"}

C12_OnlyOwnerUnlinks ==
  [][\A t \in Tabs : \A i \in 1..Len(records[t]) : \A x \in Range(records[t][i].links) :
       LET o == records[t][i].id
       IN (o \in Ids(records'[t]) /\ ~(out'.tab = t /\ out'.id = o /\ out'.op \in OwnerOps))
            => \E j \in 1..Len(records'[t]) :
                 records'[t][j].id = o /\ Includes(records'[t][j].links, x)]_vars

(***************************************************************************)
(* C12 (amended): remove(id) takes exactly one record with that id out of   *)
(* the list and leaves every other record, its links included, as it was;   *)
(* an entry of a record's links list stays through every step that is not   *)
(* removeLink, update or remove on that record and not a replacement of the *)
(* whole list (replace-mode import, cross-tab sync, reload).                *)
(***************************************************************************)
C12_NoCascade ==
  [][\A t \in Tabs :
       /\ (out'.op = "remove" /\ out'.tab = t /\ out'.ret = Some(TRUE))
            => \E i \in 1..Len(records[t]) :
                 records[t][i].id = out'.id /\ records'[t] = RemoveAt(records[t], i)
       /\ \A i \in 1..Len(records[t]) : \A x \in Range(records[t][i].links) :
            LET o == records[t][i].id
            IN (~Replaces(t) /\ ~(out'.tab = t /\ out'.id = o /\ out'.op \in OwnerOps))
                 => \E j \in 1..Len(records'[t]) :
                      records'[t][j].id = o /\ Includes(records'[t][j].links, x)]_vars

\* remove has just taken out a record that another record links to: the
\* entry dangles and linkedTo still finds its owner.
C12_Witness ==
  /\ out.op = "remove" /\ out.ret = Some(TRUE)
  /\ out.id \notin Ids(records[out.tab])
  /\ linkedTo(records[out.tab], out.id) # <<>>

(***************************************************************************)
(* C13: a dangling link is tolerated everywhere.  addLink(a, x) with a in   *)
(* the store and x the id of no record returns true and leaves x in         *)
(* a.links; linksFrom(a) is the list of the records of the store whose ids  *)
(* are in a.links, in the order of a.links, with nothing for an id that     *)
(* does not resolve; rendering a text puts a span of class 'inline-link     *)
(* broken' in place of each token @[X](x) whose id does not resolve, leaves *)
(* every other character as it is, and changes neither the text nor the     *)
(* store.                                                                   *)
(***************************************************************************)
RECURSIVE Expected(_, _)
\* What rendering the pieces must give, piece by piece.
Expected(pieces, recs) ==
  IF pieces = <<>> THEN <<>>
  ELSE (IF pieces[1].token
        THEN <<SpanElement(IF pieces[1].id \in Ids(recs) THEN "inline-link" ELSE "inline-link broken",
                           IdText(pieces[1].id), pieces[1].title)>>
        ELSE [i \in 1..Len(pieces[1].title) |-> Plain(pieces[1].title[i])])
       \o Expected(Tail(pieces), recs)

LinksFromResolves(recs, id) ==
  LET a == get(recs, id)[1]
      Resolves(x) == x \in Ids(recs)
      resolved == SelectSeq(a.links, Resolves)
      result == linksFrom(recs, id)
  IN /\ Len(result) = Len(resolved)
     /\ \A k \in 1..Len(result) : result[k].id = resolved[k] /\ Includes(recs, result[k])

C13_DanglingTolerated ==
  /\ [](\A t \in Tabs : \A id \in Ids(records[t]) : LinksFromResolves(records[t], id))
  /\ [][/\ (/\ out'.op = "addLink"
            /\ out'.id \in Ids(records[out'.tab])
            /\ out'.arg[1] \notin Ids(records[out'.tab]))
           => /\ out'.ret = Some(TRUE)
              /\ Includes(get(records'[out'.tab], out'.id)[1].links, out'.arg[1])
        /\ out'.op = "render"
           => /\ out'.ret = Some(Expected(out'.arg[1], records[out'.tab]))
              /\ Raw(out'.arg[1]) \in {Raw(pieces) : pieces \in RenderInputs}
              /\ records' = records /\ blob' = blob]_vars

\* A text with a reference to an id nothing has was just rendered with the
\* span marked broken, in a store where a record links to that id and to a
\* record that exists: linksFrom gives the one that exists.
C13_Witness ==
  /\ out.op = "render"
  /\ \E i \in 1..Len(out.ret[1]) :
       out.ret[1][i] = SpanElement("inline-link broken", IdText(Ghost), <<"X">>)
  /\ \E id \in Ids(records["A"]) :
       /\ Includes(get(records["A"], id)[1].links, Ghost)
       /\ Ghost \notin Ids(records["A"])
       /\ Len(linksFrom(records["A"], id)) = 1

(***************************************************************************)
(* C14: update(id, patch) on an existing record replaces url, links and     *)
(* tags only for the keys the patch has, merges patch.meta key by key into  *)
(* the meta the record had, leaves the record's id, type and created as     *)
(* they were and its place in the list, and changes no other record.        *)
(***************************************************************************)
C14_UpdateFrame ==
  [][(out'.op = "update" /\ out'.id \in Ids(records[out'.tab])) =>
       LET t == out'.tab
           patch == out'.arg[1]
           index == CHOOSE i \in 1..Len(records[t]) :
                      records[t][i].id = out'.id /\ \A j \in 1..(i - 1) : records[t][j].id # out'.id
           old == records[t][index]
           new == records'[t][index]
       IN /\ Len(records'[t]) = Len(records[t])
          /\ \A j \in 1..Len(records[t]) : j # index => records'[t][j] = records[t][j]
          /\ \A u \in Tabs \ {t} : records'[u] = records[u]
          /\ new.id = old.id /\ new.type = old.type /\ new.created = old.created
          /\ new.url = (IF patch.url = None THEN old.url ELSE patch.url[1])
          /\ new.links = (IF patch.links = None THEN old.links ELSE patch.links[1])
          /\ new.tags = (IF patch.tags = None THEN old.tags ELSE patch.tags[1])
          /\ IF patch.meta = None THEN new.meta = old.meta
             ELSE /\ DOMAIN new.meta = DOMAIN old.meta \cup DOMAIN patch.meta[1]
                  /\ \A k \in DOMAIN patch.meta[1] : new.meta[k] = patch.meta[1][k]
                  /\ \A k \in DOMAIN old.meta \ DOMAIN patch.meta[1] : new.meta[k] = old.meta[k]
          /\ out'.ret = Some(new)]_vars

\* update has just added a meta key to a record that keeps the title it had.
C14_Witness ==
  /\ out.op = "update" /\ IsSome(out.ret)
  /\ out.arg[1].meta = Some([done |-> TRUE])
  /\ out.ret[1].meta = [title |-> Milk, done |-> TRUE]
  /\ out.ret[1].tags = <<Work>>

(***************************************************************************)
(* C15 (as claimed): query(criteria) without a limit returns exactly the    *)
(* records that satisfy every criterion the criteria object supplies, in    *)
(* store order unless it sorts; query({type: t, tag: g}) is the             *)
(* intersection of byType(t) and byTag(g) for every t and g; the store is   *)
(* not changed by the query.                                                *)
(***************************************************************************)
SatisfiesSupplied(r, criteria) ==
  /\ IsSome(criteria.type) => r.type = criteria.type[1]
  /\ IsSome(criteria.tag) => Includes(r.tags, criteria.tag[1])
  /\ IsSome(criteria.linksTo) => Includes(r.links, criteria.linksTo[1])
  /\ criteria.hasLinks => r.links # <<>>
  /\ IsSome(criteria.meta) =>
       \A k \in DOMAIN criteria.meta[1] :
         k \in DOMAIN r.meta /\ r.meta[k] = criteria.meta[1][k]
  /\ IsSome(criteria.search) =>
       \/ "title" \in DOMAIN r.meta
            /\ StrIncludes(toLowerCase(r.meta["title"]), toLowerCase(criteria.search[1]))
       \/ \E i \in 1..Len(r.tags) :
            StrIncludes(toLowerCase(r.tags[i]), toLowerCase(criteria.search[1]))

C15_QueryConjunction ==
  [][out'.op = "query" =>
       LET recs == records[out'.tab]
           criteria == out'.arg[1]
           result == out'.ret[1]
           Wanted(r) == SatisfiesSupplied(r, criteria)
           wanted == SelectSeq(recs, Wanted)
       IN /\ Len(result) = Len(wanted)
          /\ Range(result) = Range(wanted)
          /\ criteria.sortBy = None => result = wanted
          /\ (IsSome(criteria.type) /\ IsSome(criteria.tag))
               => Range(query(recs, [NoCriteria EXCEPT !.type = criteria.type, !.tag = criteria.tag]))
                    = Range(byType(recs, criteria.type[1])) \cap Range(byTag(recs, criteria.tag[1]))
          /\ records' = records /\ blob' = blob]_vars

(***************************************************************************)
(* C16: import in merge mode leaves the records the store had as and where  *)
(* they were and appends, one record per id, exactly the incoming records   *)
(* whose id the store did not have; import in replace mode makes the list   *)
(* the incoming list.                                                       *)
(***************************************************************************)
C16_ImportModes ==
  [][(out'.op = "import" /\ out'.ret = Some(TRUE)) =>
       LET old == records[out'.tab]
           new == records'[out'.tab]
           incoming == OrElse(out'.arg[2].records, <<>>)
           added == SubSeq(new, Len(old) + 1, Len(new))
       IN IF out'.arg[1]
          THEN /\ Len(new) >= Len(old)
               /\ SubSeq(new, 1, Len(old)) = old
               /\ Ids(added) = Ids(incoming) \ Ids(old)
               /\ Len(added) = Cardinality(Ids(added))
               /\ Range(added) \subseteq Range(incoming)
          ELSE new = incoming]_vars

\* A merge has just kept the store's own record with the first id, skipped
\* the incoming record with that id and appended the incoming record with
\* a new id.
C16_Witness ==
  /\ out.op = "import" /\ out.ret = Some(TRUE) /\ out.arg[1]
  /\ out.arg[2].records = Some(<<ForeignRecord, GhostRecord("u2")>>)
  /\ Len(records[out.tab]) = 2
  /\ records[out.tab][1].id = 1 /\ records[out.tab][1].url = "u1"
  /\ records[out.tab][2] = GhostRecord("u2")

(***************************************************************************)
(* C17 (as claimed): an import of input that cannot be processed            *)
(* completely (text that does not parse, a records array with an entry      *)
(* that is no record) returns false, leaves the in-memory list and the      *)
(* persisted blob as they were and notifies no subscriber.                  *)
(***************************************************************************)
C17_FailedImportIsNoOp ==
  [][(/\ out'.op = "import"
      /\ \/ out'.arg[2].kind # "json"
         \/ Throws(OrElse(out'.arg[2].records, <<>>))) =>
       /\ out'.ret = Some(FALSE)
       /\ records' = records
       /\ blob' = blob
       /\ out'.event = None
       /\ out'.delivered = <<>>]_vars

Blank(c) == c = " " \/ c = "\n"

\* The offsets before the cursor that hold a trigger character at text
\* start or behind a blank, with no blank between it and the cursor.
Triggers(text, cursor) ==
  {k \in 0..(cursor - 1) :
     /\ text[k + 1] = "@"
     /\ (k = 0 \/ Blank(text[k]))
     /\ \A j \in (k + 2)..cursor : ~Blank(text[j])}

Nearest(offsets) == CHOOSE k \in offsets : \A j \in offsets : j <= k

(***************************************************************************)
(* C19 (as claimed): after every text-change event the controller is active *)
(* exactly when some '@' before the cursor is at text start or behind a     *)
(* blank and no blank separates it from the cursor; startPos is then the    *)
(* nearest such '@' and query the text between it and the cursor;           *)
(* otherwise the controller is idle and the list hidden.                    *)
(***************************************************************************)
C19_TriggerRule ==
  [][out'.op = "input" =>
       LET state == linkers'[out'.arg[1]]
           found == Triggers(state.value, state.selectionStart)
       IN IF found # {}
          THEN /\ state.active
               /\ state.startPos = Nearest(found)
               /\ state.query = slice(state.value, Nearest(found) + 1, state.selectionStart)
          ELSE /\ ~state.active
               /\ dropdown'.display = "none"]_vars

\* A commit made while the controller it finds in activeLinker is active.
Committing ==
  /\ out'.op = "selectOption"
  /\ IsSome(activeLinker)
  /\ linkers[activeLinker[1]].active

\* What the commit of (id, title) does to the text, the cursor and the
\* controller of the element, and which addLink it makes.
CommitSplices ==
  LET e == activeLinker[1]
      state == linkers[e]
      link == <<"@", "[">> \o out'.arg.title \o <<"]", "(">> \o IdText(out'.id) \o <<")", " ">>
      after == linkers'[e]
  IN /\ slice(after.value, 0, state.startPos) = slice(state.value, 0, state.startPos)
     /\ slice(after.value, state.startPos, state.startPos + Len(link)) = link
     /\ slice(after.value, state.startPos + Len(link), Len(after.value))
          = slice(state.value, state.selectionStart, Len(state.value))
     /\ after.selectionStart = state.startPos + Len(link)
     /\ after.value[after.selectionStart] = " "
     /\ out'.arg.addLink = IF IsSome(state.options.recordId)
                           THEN Some(<<state.options.recordId[1], out'.id>>)
                           ELSE None
     /\ ~after.active
     /\ activeLinker' = None
     /\ dropdown'.display = "none"

OwnerLinked ==
  \E r \in Range(linkedTo(records'["A"], out'.id)) :
    r.id = linkers[activeLinker[1]].options.recordId[1]

C25_IndexInRange ==
  \A e \in DOMAIN linkers :
    linkers[e].active =>
      /\ 0 <= linkers[e].selectedIndex
      /\ linkers[e].selectedIndex <= (IF Len(dropdown.options) > 0 THEN Len(dropdown.options) - 1 ELSE 0)

(***************************************************************************)
(* C26 (as claimed): Escape pressed while active clears the query, hides    *)
(* the list and leaves the controller idle; the text, the cursor and the    *)
(* store are unchanged.                                                     *)
(***************************************************************************)
C26_EscapeClears ==
  [][(out'.op = "keydown" /\ out'.arg[2] = "Escape") =>
       LET e == out'.arg[1]
       IN /\ linkers'[e].query = <<>>
          /\ ~linkers'[e].active
          /\ dropdown'.display = "none"
          /\ linkers'[e].value = linkers[e].value
          /\ linkers'[e].selectionStart = linkers[e].selectionStart
          /\ records' = records
          /\ blob' = blob]_vars

(***************************************************************************)
(* C30 (as claimed): when a candidate is committed, startPos is at most the *)
(* cursor and the character at startPos is the trigger character.           *)
(***************************************************************************)
C30_TriggerOffsetCurrent ==
  [][Committing =>
       LET state == linkers[activeLinker[1]]
       IN /\ state.startPos <= state.selectionStart
          /\ state.startPos < Len(state.value)
          /\ state.value[state.startPos + 1] = "@"]_vars

(***************************************************************************)
(* C27: the blur of an element leaves its open list open; when the timeout  *)
(* of the blur expires while the list is still open for the element, the    *)
(* list is closed; a click on a candidate while the timeout is pending      *)
(* commits the candidate: it splices the text and links the owner.          *)
(***************************************************************************)
C27_GraceDelay ==
  [][/\ out'.op = "blur" => (dropdown' = dropdown /\ activeLinker' = activeLinker)
     /\ (out'.op = "timeout" /\ activeLinker = Some(out'.arg[1]) /\ dropdown.display = "block") =>
          (dropdown'.display = "none" /\ activeLinker' = None)
     /\ (Committing /\ activeLinker[1] \in timeouts) =>
          /\ dropdown.display = "block"
          /\ CommitSplices
          /\ IsSome(get(records["A"], OrElse(linkers[activeLinker[1]].options.recordId, 0))) => OwnerLinked]_vars

\* The timeout of a blur has just closed the list that was open for the element.
C27_Witness ==
  /\ out.op = "timeout"
  /\ dropdown.display = "none"
  /\ Len(dropdown.options) > 0
  /\ linkers["e1"].active
  /\ linkers["e1"].value = <<"@">>

\* A candidate has been committed by a click while the timeout was pending.
C27_ClickWitness ==
  /\ out.op = "selectOption"
  /\ out.ret = Some(TRUE)
  /\ "e1" \in timeouts
  /\ linkers["e1"].value = LinkText(Ghost, Untitled)

\* The cap of the list: records.slice(0, 10).
ListCap == 10

\* An 'input' event has just rendered the list of its element.
Rendered ==
  /\ out'.op = "input"
  /\ linkers'[out'.arg[1]].active

NotExcludedBy(state, r) ==
  ~(IsSome(state.options.excludeId) /\ r.id = state.options.excludeId[1])

(***************************************************************************)
(* C23: when the list is rendered for a query q, it holds one synthetic     *)
(* candidate, first and highlighted, if q parses as a time expression and   *)
(* none otherwise; no candidate is the excluded record; there are at most   *)
(* ListCap candidates; and for an empty q the candidates are the first      *)
(* ListCap records of the store, the excluded one left out, in store order. *)
(***************************************************************************)
C23_RenderedList ==
  [][Rendered =>
       LET state == linkers'[out'.arg[1]]
           options == dropdown'.options
           synthetic == {i \in 1..Len(options) : options[i].action = "create-event"}
           Allowed(r) == NotExcludedBy(state, r)
           allowed == SelectSeq(all(records["A"]), Allowed)
       IN /\ dropdown'.display = "block"
          /\ IF IsSome(parseTimeExpression(state.query, today))
             THEN synthetic = {1} /\ state.selectedIndex = 0
             ELSE synthetic = {}
          /\ \A i \in 1..Len(options) :
               options[i].action # "create-event" =>
                 ~(IsSome(state.options.excludeId) /\ options[i].id = state.options.excludeId[1])
          /\ Len(options) <= ListCap
          /\ state.query = <<>> =>
               /\ Len(options) = (IF Len(allowed) < ListCap THEN Len(allowed) ELSE ListCap)
               /\ \A i \in 1..Len(options) : options[i].id = allowed[i].id]_vars

\* '@' has just been typed over a store of eleven records whose first is
\* excluded: the list shows the ten others.
C23_Witness ==
  /\ out.op = "input"
  /\ linkers["e1"].active
  /\ linkers["e1"].query = <<>>
  /\ linkers["e1"].options.excludeId = Some(1)
  /\ Len(records["A"]) = 11
  /\ Len(dropdown.options) = 10
  /\ dropdown.options[1].id = 2

\* 'mon9am' has just been pasted behind '@' on a Wednesday: the synthetic
\* candidate leads five records.
C23_TimeWitness ==
  /\ out.op = "input"
  /\ linkers["e1"].query = <<"m", "o", "n", "9", "a", "m">>
  /\ today.day = 3
  /\ Len(dropdown.options) = 6
  /\ dropdown.options[1].action = "create-event"
  /\ dropdown.options[1].timeLabel = <<"9", ":", "0", "0", " ", "A", "M", " ", "M", "o", "n">>

(***************************************************************************)
(* C24 (as claimed): for a non-empty query q the record candidates are the  *)
(* records of query({search: q, limit: ListCap}) other than the excluded    *)
(* one, whether q parses as a time expression or not.                       *)
(***************************************************************************)
C24_CandidatesAreQuery ==
  [][(Rendered /\ linkers'[out'.arg[1]].query # <<>>) =>
       LET state == linkers'[out'.arg[1]]
           options == dropdown'.options
           IsRecord(o) == o.action # "create-event"
           Allowed(r) == NotExcludedBy(state, r)
           found == SelectSeq(query(records["A"],
                                    [NoCriteria EXCEPT !.search = Some(state.query),
                                                       !.limit = Some(ListCap)]), Allowed)
           shown == SelectSeq(options, IsRecord)
       IN /\ Len(shown) = Len(found)
          /\ \A i \in 1..Len(shown) : shown[i].id = found[i].id]_vars

\* The content of a tree before a boundary point, and the logical offset of
\* the point: the length of the logical text of that content.
ContentBefore(tree, point) ==
  IF point.at > 0 /\ tree[point.at].kind = "text"
  THEN SubSeq(tree, 1, point.at - 1) \o <<TextNode(slice(tree[point.at].text, 0, point.offset))>>
  ELSE SubSeq(tree, 1, point.at)

LogicalOffset(tree, point) == Len(getContentEditableText(ContentBefore(tree, point)))

\* The three accountings of a tree give one number.
AccountingsAgree(tree) ==
  LET length == Len(getContentEditableText(tree))
      found == findPosition(tree, length)
  IN /\ getContentEditableCursorPos(tree, Some(EndPoint(tree))) = length
     /\ IsSome(found)
     /\ found[1].offset >= 0
     /\ LogicalOffset(tree, found[1]) = length

(***************************************************************************)
(* C28 (as claimed): for the tree of every contenteditable element, the     *)
(* length of the logical text, the cursor offset computed for a selection   *)
(* at the end of the content, and the logical offset of the place where     *)
(* findPosition locates that length are the same number.                    *)
(***************************************************************************)
C28_AccountingsAgree ==
  \A e \in DOMAIN linkers : linkers[e].isContentEditable => AccountingsAgree(linkers[e].tree)

\* A commit on a contenteditable element has just been handled.
RichCommit ==
  /\ out'.op \in {"selectOption", "createEventAndLink"}
  /\ out'.arg.ran
  /\ linkers[activeLinker[1]].isContentEditable

\* The inline-link spans of a tree, in document order.
LinksOf(tree) ==
  LET IsLink(node) == node.kind = "link"
  IN SelectSeq(tree, IsLink)

(***************************************************************************)
(* C29 (as claimed): a commit on a contenteditable element whose selection  *)
(* is in the element leaves the logical text                                *)
(* text[0..triggerOffset) + '@[title](id) ' + text[cursor..), cursor being  *)
(* the logical offset of the selection, as the splice of a text field       *)
(* does, and the reference nodes before the trigger offset are still there, *)
(* with their labels and ids.                                               *)
(***************************************************************************)
C29_RichSpliceAsPlain ==
  [][(RichCommit /\ IsSome(linkers[activeLinker[1]].selection)) =>
       LET e == activeLinker[1]
           state == linkers[e]
           text == getContentEditableText(state.tree)
           cursor == LogicalOffset(state.tree, state.selection[1])
           before == LinksOf(ContentBefore(state.tree, IF IsSome(findPosition(state.tree, state.startPos))
                                                         /\ findPosition(state.tree, state.startPos)[1].offset >= 0
                                                       THEN findPosition(state.tree, state.startPos)[1]
                                                       ELSE ElementStart))
       IN /\ getContentEditableText(linkers'[e].tree)
               = slice(text, 0, state.startPos) \o LinkText(out'.id, out'.arg.title)
                   \o slice(text, cursor, Len(text))
          /\ SubSeq(LinksOf(linkers'[e].tree), 1, Len(before)) = before]_vars

(***************************************************************************)
(* C22 (as claimed): a commit on a contenteditable element whose splice is  *)
(* not carried out (the window has no selection, or findPosition resolves   *)
(* no position for the trigger offset) changes nothing: the content and the *)
(* store are as before, and the controller is still active.                 *)
(***************************************************************************)
C22_FailedSpliceIsNoOp ==
  [][(RichCommit /\ ~insertInContentEditable(linkers[activeLinker[1]], out'.arg.title, out'.id).inserted) =>
       /\ linkers'[activeLinker[1]].tree = linkers[activeLinker[1]].tree
       /\ records' = records
       /\ activeLinker' = activeLinker
       /\ linkers'[activeLinker[1]].active]_vars

(***************************************************************************)
(* C21: committing the candidate that creates an event adds one record to   *)
(* the store, of type 'event', whose meta.start is the time the query       *)
(* parses to and whose title is 'Event at ' followed by the label; where    *)
(* the splice is carried out (a text field, or a contenteditable element    *)
(* with a selection) the text becomes text[0..triggerOffset) +              *)
(* '@[Event at <label>](<newId>) ' + text[cursor..); and                    *)
(* addLink(owner, newId) is called exactly when an owner is configured,     *)
(* which makes the owner link to the event when the store holds the owner.  *)
(***************************************************************************)
C21_EventCommit ==
  [][out'.op = "createEventAndLink" =>
       LET e == activeLinker[1]
           state == linkers[e]
           parsed == parseTimeExpression(state.query, today)
           label == formatTimeLabel(parsed[1].timestamp, today)
           link == LinkText(out'.id, EventTitle(label))
           owner == state.options.recordId
           created == get(records'["A"], out'.id)
           text == getContentEditableText(state.tree)
           cursor == LogicalOffset(state.tree, state.selection[1])
       IN /\ IsSome(parsed)
          /\ ~IsSome(get(records["A"], out'.id))
          /\ Len(records'["A"]) = Len(records["A"]) + 1
          /\ \A i \in 1..Len(records["A"]) : records'["A"][i + 1].id = records["A"][i].id
          /\ IsSome(created)
          /\ created[1].type = "event"
          /\ created[1].meta.start = parsed[1].timestamp
          /\ created[1].meta.title = EventTitle(label)
          /\ out'.arg.title = EventTitle(label)
          /\ ~state.isContentEditable =>
               /\ linkers'[e].value = slice(state.value, 0, state.startPos) \o link
                                        \o slice(state.value, state.selectionStart, Len(state.value))
               /\ linkers'[e].selectionStart = state.startPos + Len(link)
          /\ (state.isContentEditable /\ IsSome(state.selection)) =>
               getContentEditableText(linkers'[e].tree)
                 = slice(text, 0, state.startPos) \o link \o slice(text, cursor, Len(text))
          /\ ((state.isContentEditable => IsSome(state.selection)) /\ IsSome(owner)) =>
               /\ out'.arg.addLink = Some(<<owner[1], out'.id>>)
               /\ IsSome(get(records["A"], owner[1])) =>
                    /\ Includes(get(records'["A"], owner[1])[1].links, out'.id)
                    /\ \E i \in 1..Len(linkedTo(records'["A"], out'.id)) :
                         linkedTo(records'["A"], out'.id)[i].id = owner[1]
          /\ ~IsSome(owner) => /\ out'.arg.addLink = None
                               /\ linkedTo(records'["A"], out'.id) = <<>>]_vars

\* '@mon9am' was typed into an empty contenteditable element on a Wednesday
\* at 10:00 and the candidate '9:00 AM Mon' committed: the content reads
\* '@[Event at 9:00 AM Mon](1) ', record 1 is the event and the owner links
\* to it.
C21_Witness ==
  /\ out.op = "createEventAndLink"
  /\ today = Wednesday10
  /\ "r1" \in DOMAIN linkers
  /\ getContentEditableText(linkers["r1"].tree)
       = LinkText(1, EventTitle(<<"9", ":", "0", "0", " ", "A", "M", " ", "M", "o", "n">>))
  /\ IsSome(get(records["A"], 1))
  /\ get(records["A"], 1)[1].type = "event"
  /\ get(records["A"], 1)[1].meta.start = 8 * 1440 + 9 * 60
  /\ IsSome(get(records["A"], Ghost))
  /\ Includes(get(records["A"], Ghost)[1].links, 1)

\* The same in a text field.
C21_FieldWitness ==
  /\ out.op = "createEventAndLink"
  /\ "e1" \in DOMAIN linkers
  /\ linkers["e1"].value
       = LinkText(1, EventTitle(<<"9", ":", "0", "0", " ", "A", "M", " ", "M", "o", "n">>))
  /\ IsSome(get(records["A"], 1))
  /\ get(records["A"], 1)[1].meta.start = 8 * 1440 + 9 * 60

\* parseTimeExpression has just been applied, and returned a time.
Parsed == out.op = "parseTimeExpression" /\ IsSome(out.ret)

\* The minutes from the start of day 0 to the reading of the clock.
NowMinutes == today.day * 1440 + today.minutes

(***************************************************************************)
(* C38: for a token without a day, the time returned is today at the        *)
(* resolved hour and minute when that is later in the day than the clock    *)
(* reads, and tomorrow at that time otherwise; it is after the reading of   *)
(* the clock and at most 24 hours ahead of it.                              *)
(***************************************************************************)
C38_BareTimeRolls ==
  (Parsed /\ out.arg.day = <<>>) =>
    LET target == out.ret[1].hours * 60 + out.ret[1].minutes
    IN /\ target > today.minutes => out.ret[1].timestamp = today.day * 1440 + target
       /\ target <= today.minutes => out.ret[1].timestamp = (today.day + 1) * 1440 + target
       /\ out.ret[1].timestamp > NowMinutes
       /\ out.ret[1].timestamp <= NowMinutes + 1440

\* At 10:00, '3pm' gave today 15:00.
C38_Witness ==
  /\ Parsed
  /\ out.arg = [day |-> <<>>, hour |-> 3, min |-> None, ampm |-> <<"p", "m">>]
  /\ today.minutes = 600
  /\ out.ret[1].timestamp = today.day * 1440 + 15 * 60

\* At 10:00, '9am' gave tomorrow 09:00.
C38_TomorrowWitness ==
  /\ Parsed
  /\ out.arg = [day |-> <<>>, hour |-> 9, min |-> None, ampm |-> <<"a", "m">>]
  /\ today.minutes = 600
  /\ out.ret[1].timestamp = (today.day + 1) * 1440 + 9 * 60

\* The weekday a written day names, Sunday being 0.
Weekdays == <<"s", "m", "t", "w", "t", "f", "s">>

WeekdayNamed(dayStr) ==
  CHOOSE d \in 0..6 :
    /\ Weekdays[d + 1] = dayStr[1]
    /\ (dayStr[1] = "s" => (d = 0) = (dayStr[2] = "u"))
    /\ (dayStr[1] = "t" => (d = 2) = (dayStr[2] = "u"))

(***************************************************************************)
(* C39: for a token with a day, 'today' gives the current date, 'tomorrow'  *)
(* the next one, and a weekday the next date on that weekday, 1 to 7 days   *)
(* ahead (7 when today is that weekday); the time of day is the resolved    *)
(* hour and minute.                                                         *)
(***************************************************************************)
C39_DayPrefix ==
  (Parsed /\ out.arg.day # <<>>) =>
    LET day == out.ret[1].timestamp \div 1440
    IN /\ out.ret[1].timestamp % 1440 = out.ret[1].hours * 60 + out.ret[1].minutes
       /\ out.arg.day = <<"t", "o", "d", "a", "y">> => day = today.day
       /\ out.arg.day = <<"t", "o", "m", "o", "r", "r", "o", "w">> => day = today.day + 1
       /\ out.arg.day \notin {<<"t", "o", "d", "a", "y">>, <<"t", "o", "m", "o", "r", "r", "o", "w">>} =>
            /\ day - today.day \in 1..7
            /\ day % 7 = WeekdayNamed(out.arg.day)
            /\ (today.day % 7 = WeekdayNamed(out.arg.day)) => day = today.day + 7

\* On a Wednesday 'wed9am' gave the Wednesday of the next week, 09:00.
C39_Witness ==
  /\ Parsed
  /\ out.arg = [day |-> <<"w", "e", "d">>, hour |-> 9, min |-> None, ampm |-> <<"a", "m">>]
  /\ today.day % 7 = 3
  /\ out.ret[1].timestamp = (today.day + 7) * 1440 + 9 * 60

(***************************************************************************)
(* C40 (as claimed): the parser returns null when the written hour is above *)
(* 23 or the written minute above 59; otherwise it returns a time whose     *)
(* hour is in 0..23, before 12 when 'am' is written, 12 or later when 'pm'  *)
(* is written, and without a meridiem the written hour plus 12 when that is *)
(* below 8 and the written hour itself from 8 to 23.                        *)
(***************************************************************************)
C40_Meridiem ==
  out.op = "parseTimeExpression" =>
    IF out.arg.hour > 23 \/ (IsSome(out.arg.min) /\ out.arg.min[1] > 59)
    THEN out.ret = None
    ELSE /\ IsSome(out.ret)
         /\ out.ret[1].hours \in 0..23
         /\ out.arg.ampm = <<"a", "m">> => out.ret[1].hours < 12
         /\ out.arg.ampm = <<"p", "m">> => out.ret[1].hours >= 12
         /\ out.arg.ampm = <<>> =>
              out.ret[1].hours = (IF out.arg.hour < 8 THEN out.arg.hour + 12 ELSE out.arg.hour)

\* '13am' at 10:00 on the first Wednesday was resolved to hour 13.
C40_LateAmNotReached ==
  ~(/\ Parsed
    /\ out.arg = [day |-> <<>>, hour |-> 13, min |-> None, ampm |-> <<"a", "m">>]
    /\ today = Wednesday10
    /\ out.ret[1].hours = 13)

\* The claim of C40 for every token but an hour of 13 to 23 written with 'am'.
C40_ButLateAm ==
  (out.op = "parseTimeExpression" /\ ~(out.arg.ampm = <<"a", "m">> /\ out.arg.hour \in 13..23)) =>
    IF out.arg.hour > 23 \/ (IsSome(out.arg.min) /\ out.arg.min[1] > 59)
    THEN out.ret = None
    ELSE /\ IsSome(out.ret)
         /\ out.ret[1].hours \in 0..23
         /\ out.arg.ampm = <<"a", "m">> => out.ret[1].hours < 12
         /\ out.arg.ampm = <<"p", "m">> => out.ret[1].hours >= 12
         /\ out.arg.ampm = <<>> =>
              out.ret[1].hours = (IF out.arg.hour < 8 THEN out.arg.hour + 12 ELSE out.arg.hour)

(***************************************************************************)
(* C31 (as claimed): a commit that starts (selectOption or                  *)
(* createEventAndLink with the active-controller pointer set) runs to its   *)
(* end: the pointer is still set where the routine marks the controller     *)
(* inactive, so the routine does not throw there.                           *)
(***************************************************************************)
C31_CommitRunsToEnd ==
  (out.op \in {"selectOption", "createEventAndLink"} /\ out.arg.ran) => ~out.arg.threw

(***************************************************************************)
(* C32 (as claimed): the list is displayed exactly when some controller is  *)
(* active and the active-controller pointer designates it; when the list is *)
(* hidden no controller is active and the pointer is null.                  *)
(***************************************************************************)
C32_ListIffActive ==
  /\ (dropdown.display = "block") <=>
       (\E e \in DOMAIN linkers : linkers[e].active /\ activeLinker = Some(e))
  /\ (dropdown.display = "none") =>
       /\ \A e \in DOMAIN linkers : ~linkers[e].active
       /\ activeLinker = None

(***************************************************************************)
(* C34 (as claimed): when an '@' typed into an element whose blur timeout   *)
(* is pending has opened the list for a new trigger, the expiry of that     *)
(* timeout leaves the list displayed.                                       *)
(***************************************************************************)
C34_StaleTimerSpares ==
  [][(/\ out.op = "input"
      /\ out.arg[2] = "@"
      /\ out.arg[1] \in timeouts
      /\ dropdown.display = "block"
      /\ activeLinker = Some(out.arg[1])
      /\ out'.op = "timeout"
      /\ out'.arg[1] = out.arg[1])
     => dropdown'.display = "block"]_vars

(***************************************************************************)
(* C35 (as claimed): when an unsubscribe function is called for the first   *)
(* time from inside a callback during the delivery of an event, every       *)
(* callback whose subscription is live before and after the delivery is     *)
(* invoked exactly once for that event.                                     *)
(***************************************************************************)
C35_UnsubscribeDuringDelivery ==
  [][(IsSome(out'.event) /\ closures'[out'.tab] # closures[out'.tab]) =>
       \A c \in Callbacks :
         (LiveSubscriptions(closures[out'.tab], c) \cap LiveSubscriptions(closures'[out'.tab], c) # {})
           => Occurrences(out'.delivered, c) = 1]_vars

\* The list is ordered most recent first.
MostRecentFirst(recs) ==
  \A i, j \in 1..Len(recs) : i < j => recs[i].created >= recs[j].created

(***************************************************************************)
(* C37 (as claimed): in every reachable state the list all() returns is     *)
(* ordered most recent first: of two records the one nearer the front was   *)
(* created no earlier than the other.                                       *)
(***************************************************************************)
C37_MostRecentFirst == \A t \in Tabs : MostRecentFirst(all(records[t]))

\* The list is in order as long as nothing has been imported: after add,
\* update, remove and the link and tag changes alone.
C37_OrderedWithoutImport ==
  [][(MostRecentFirst(all(records["A"])) /\ out'.op # "import" /\ out'.tab = "A")
       => MostRecentFirst(all(records'["A"]))]_vars

\* At most one controller is active.
C33_AtMostOneActive == Cardinality({e \in DOMAIN linkers : linkers[e].active}) <= 1

\* A commit by a key pressed in e1 (the only element of SpecPair the keys of
\* the list are pressed in) leaves e2 and the links of the owner of e2 as
\* they were.
C33_KeySparesOther ==
  [][(/\ out'.op = "selectOption"
      /\ out'.arg.ran
      /\ "e2" \in DOMAIN linkers)
     => /\ linkers'["e2"].value = linkers["e2"].value
        /\ \A i \in 1..Len(records["A"]) :
             records["A"][i].id = 2 => records'["A"][i].links = records["A"][i].links]_vars

(***************************************************************************)
(* C33 (as claimed): with two elements attached, at most one controller is  *)
(* active at any time, and Enter or Tab pressed in one element splices the  *)
(* token into that element and links that element's owner only: the text   *)
(* of the other element and the links of its owner stay as they were.       *)
(***************************************************************************)
C33_OneActiveOneTarget ==
  [][/\ Cardinality({e \in DOMAIN linkers' : linkers'[e].active}) <= 1
     /\ (/\ out'.op = "selectOption"
         /\ out'.arg.ran
         /\ "e2" \in DOMAIN linkers)
        => /\ linkers'["e2"].value = linkers["e2"].value
           /\ \A i \in 1..Len(records["A"]) :
                records["A"][i].id = 2 => records'["A"][i].links = records["A"][i].links]_vars

\* A reference token of a record of the store starts at offset p of the text.
TokenAt(text, p, recs) ==
  \E i \in 1..Len(recs) :
    LET token == RawLink(TitleOr(recs[i], Untitled), recs[i].id)
    IN slice(text, p, p + Len(token)) = token

(***************************************************************************)
(* C36 (as claimed): the controller is never active with its trigger offset *)
(* at the '@' of a reference token that is in the text, so that no commit   *)
(* replaces a range that starts at an inserted token.                       *)
(***************************************************************************)
C36_TokenNotTrigger ==
  \A e \in DOMAIN linkers :
    (linkers[e].active /\ activeLinker = Some(e) /\ ~linkers[e].isContentEditable)
      => ~TokenAt(linkers[e].value, linkers[e].startPos, records["A"])

\* No commit of SpecToken replaces a range that starts at a token: with the
\* trigger at a token the query matches no title and the list is empty.
C36_CommitSparesToken ==
  [][(out'.op = "selectOption" /\ out'.arg.ran /\ IsSome(activeLinker))
       => ~TokenAt(linkers[activeLinker[1]].value, linkers[activeLinker[1]].startPos, records["A"])]_vars

====
